---- MODULE Spec2Model ----
(***************************************************************************)
(* A model of the AI Background Studio web application:                    *)
(*   - the batch queue of BatchProcessor.tsx (items, processNext and the   *)
(*     asynchronous run of loadImage / removeBackground for one item),     *)
(*   - the alpha-matte loop of removeBackground (lib/backgroundRemoval.ts  *)
(*     and the component-local variant in BackgroundRemover.tsx),          *)
(*   - the preview canvas of ImageComposer.tsx (composeImage calls whose   *)
(*     image loads are in flight, the overlays, quick download),           *)
(*   - the letterboxing resize and the export of ExportStudio.tsx.         *)
(*                                                                         *)
(* React state is modelled by variables; a handler is one action; an       *)
(* async function is one action per await point, carrying the values its   *)
(* closure captured when it was called.  The `disabled` attributes of the  *)
(* buttons are view-level and are not part of the handlers: a handler is   *)
(* enabled whenever its own code does something.  State that is written   *)
(* and never read (BatchProcessor's currentIndex) is left out.             *)
(***************************************************************************)
EXTENDS Integers, Sequences, FiniteSets, TLC

VARIABLES
    \* ---- BatchProcessor.tsx
    items,          \* useState<BatchItem[]>: the queue, in insertion order
    isProcessing,   \* useState(false)
    runs,           \* calls of processNext suspended at an await
    timers,         \* pending setTimeout callbacks of finished runs (FIFO)
    nextId,         \* source of crypto.randomUUID(): ids never repeat
    \* ---- removeBackground's alpha loop
    raster,         \* the canvas the image was drawn on: width, height, data
    mask,           \* the segmentation mask's data
    outputData,     \* outputImageData.data, the buffer the loop writes
    maskOutcome,    \* "pending" before the loop, then how it ended
    \* ---- the page (Index), AdvancedControls and ImageComposer.tsx
    foregroundBlob, \* page state processedImage: <<>> (null) or <<blob>>
    backgroundUrl,  \* page state backgroundUrl: <<>> (null) or <<url>>
    advancedSettings, \* page state: <<>> (undefined) or <<settings>>
    settings,       \* AdvancedControls' useState<AdvancedSettings>
    scale,          \* useState(1), the rational <<numerator, denominator>>
    position,       \* useState({x: 0, y: 0})
    isDragging,     \* useState(false)
    dragStart,      \* useState({x: 0, y: 0})
    dragOrigin,     \* <<>> or <<where the last mouse-down happened and the
                    \* position at that moment>> (a record of the event,
                    \* no state of the component)
    showGrid,       \* useState(false)
    showEdges,      \* useState(false)
    canvas,         \* the <canvas>: width, height and what was drawn on it
    calls,          \* composeImage calls suspended at an image load
    history,        \* per composeImage call, in call order: the values it
                    \* closed over and how it ended
    composeToasts,  \* number of 'Failed to compose image' toasts shown
    downloaded,     \* <<>> or <<what downloadImage's canvas.toBlob captured>>
    \* ---- ExportStudio.tsx
    exportSource,   \* canvasRef.current: <<>> (null) or <<the canvas>>
    format,         \* useState('png')
    selectedSize,   \* useState(PRESET_SIZES[0])
    customWidth,    \* useState(1920)
    customHeight,   \* useState(1080)
    useCustomSize,  \* useState(false)
    addWatermark,   \* useState(false)
    exported,       \* <<>> or <<the last file handleExport's toBlob produced>>
    exportToast,    \* the last toast of handleExport
    \* ---- BackgroundRemover.tsx
    selectedFile,   \* useState<File | null>: <<>> (null) or <<file>>
    removerIsProcessing, \* BackgroundRemover's useState(false) isProcessing
    progress,       \* useState(0)
    removals,       \* per processImage call, in call order: the file it
                    \* closed over, the await it is suspended at or how it
                    \* ended, and the failure of the collaborator it met
    processed,      \* the calls of onImageProcessed made so far
    removerToast,   \* the last toast of BackgroundRemover
    \* ---- composeImage's synchronous part applied to given inputs
    drawQueue,      \* the closures of the composeImage calls still to draw
    drawCanvas,     \* the <canvas> they draw on, one after the other
    drawDone,       \* the closures already drawn, in order
    \* ---- applyAdvancedSettings applied to one pixel
    gradeInput,     \* a pixel of the image data and the settings
    gradeOutput,    \* <<>> or <<the pixel after the pass>>
    \* ---- resizeImageIfNeeded
    resizeInput,    \* image.naturalWidth, image.naturalHeight
    resizeOutput    \* <<>> or <<canvas size, the drawImage call, return value>>

batchVars == <<items, isProcessing, runs, timers, nextId>>
maskVars == <<raster, mask, outputData, maskOutcome>>
composeVars == <<foregroundBlob, backgroundUrl, advancedSettings, settings,
                 scale, position, isDragging, dragStart, dragOrigin, showGrid,
                 showEdges, canvas, calls, history, composeToasts, downloaded>>
exportVars == <<exportSource, format, selectedSize, customWidth, customHeight,
                useCustomSize, addWatermark, exported, exportToast>>
removerVars == <<selectedFile, removerIsProcessing, progress, removals,
                 processed, removerToast>>
drawVars == <<drawQueue, drawCanvas, drawDone>>
gradeVars == <<gradeInput, gradeOutput>>
resizeVars == <<resizeInput, resizeOutput>>
pureVars == <<drawVars, gradeVars, resizeVars>>
vars == <<batchVars, maskVars, composeVars, exportVars, removerVars, pureVars>>

\* what the actions of one part leave alone
BatchFrame ==
    UNCHANGED <<maskVars, composeVars, exportVars, removerVars, pureVars>>
MaskFrame ==
    UNCHANGED <<batchVars, composeVars, exportVars, removerVars, pureVars>>
ComposeFrame ==
    UNCHANGED <<batchVars, maskVars, exportVars, removerVars, pureVars>>
ExportFrame ==
    UNCHANGED <<batchVars, maskVars, composeVars, removerVars, pureVars>>
RemoverFrame ==
    UNCHANGED <<batchVars, maskVars, composeVars, exportVars, pureVars>>
DrawFrame ==
    UNCHANGED <<batchVars, maskVars, composeVars, exportVars, removerVars,
                gradeVars, resizeVars>>
GradeFrame ==
    UNCHANGED <<batchVars, maskVars, composeVars, exportVars, removerVars,
                drawVars, resizeVars>>
ResizeFrame ==
    UNCHANGED <<batchVars, maskVars, composeVars, exportVars, removerVars,
                drawVars, gradeVars>>

\* `undefined` / `null` of an optional field
None == "none"

(***************************************************************************)
(* Bounds of the model                                                     *)
(***************************************************************************)
\* files ever added to the batch queue
MaxIds == 3
\* files in one FileList handed to handleFileSelect
MaxFileList == 2
\* pixels of the raster the alpha loop runs on
MaxPixels == 2
\* composeImage calls made in one behaviour
MaxCalls == 2
\* processImage calls made in one behaviour
MaxRuns == 2

(***************************************************************************)
(* BatchProcessor.tsx                                                      *)
(***************************************************************************)
\* file.type of the File objects the user can pick
FileTypes == {"image/png", "text/plain"}

\* file.type.startsWith('image/')
IsImage(type) == type = "image/png"

\* every entry of a FileList is a File object of its own: the n-th File the
\* queue accepted is told from all others by n
FileObject(type, n) == <<type, n>>

\* the Blob removeBackground resolves with for a file: the cutout of that file
CutoutOf(f) == <<"cutout", f>>
NoBlob == <<"none", "">>

\* error instanceof Error ? error.message : 'Unknown error'
UnknownError == "Unknown error"
\* what the awaited external calls can reject with
PipelineErrors == {"Failed to fetch model"}
SegmenterErrors == {"Segmentation failed"}

\* handleFileSelect's map: a new pending item
NewItem(id, f) ==
    [id |-> id, file |-> f, status |-> "pending", progress |-> 0,
     result |-> NoBlob, error |-> None]

RECURSIVE NewItems(_, _)
\* Array.from(files).filter(image).map(...): ids are drawn in order
NewItems(types, id) ==
    IF types = <<>> THEN <<>>
    ELSE IF IsImage(Head(types))
         THEN <<NewItem(id, FileObject(Head(types), id))>>
                  \o NewItems(Tail(types), id + 1)
         ELSE NewItems(Tail(types), id)

\* the FileLists of a drop or a file input, by the types of their files
FileLists == UNION {[1..n -> FileTypes] : n \in 1..MaxFileList}

\* items.filter(item => item.status === 'pending')
PendingItems(its) == SelectSeq(its, LAMBDA i : i.status = "pending")

Ids(its) == {its[k].id : k \in DOMAIN its}

\* setItems(prev => prev.map(i => i.id === id ? {...i, <change>} : i))
MarkProcessing(its, id) ==
    [k \in DOMAIN its |->
        IF its[k].id = id
        THEN [its[k] EXCEPT !.status = "processing", !.progress = 0]
        ELSE its[k]]

OnProgressAll(its, id, p) ==
    [k \in DOMAIN its |-> [its[k] EXCEPT !.progress = p]]

OnProgress(its, id, p) ==
    [k \in DOMAIN its |->
        IF its[k].id = id THEN [its[k] EXCEPT !.progress = p] ELSE its[k]]

MarkCompleted(its, id, blob) ==
    [k \in DOMAIN its |->
        IF its[k].id = id
        THEN [its[k] EXCEPT !.status = "completed", !.progress = 100,
                            !.result = blob]
        ELSE its[k]]

MarkErrorNoMessage(its, id, msg) ==
    [k \in DOMAIN its |->
        IF its[k].id = id THEN [its[k] EXCEPT !.status = "error"] ELSE its[k]]

MarkError(its, id, msg) ==
    [k \in DOMAIN its |->
        IF its[k].id = id
        THEN [its[k] EXCEPT !.status = "error", !.error = msg]
        ELSE its[k]]

\* the render-time values a call of processNext closes over.  processNext
\* and its timer callback read `items` only through filters on
\* status === 'pending', so the closure keeps the pending items
Closure(its, busy) == [items |-> PendingItems(its), isProcessing |-> busy]

ReturnsEarlyNoBusyCheck(cl) == Len(PendingItems(cl.items)) = 0

\* line 71: if (pendingItems.length === 0 || isProcessing) return;
ReturnsEarly(cl) == Len(PendingItems(cl.items)) = 0 \/ cl.isProcessing

\* processNext up to its first await, called with closure cl
ProcessNext(cl) ==
    IF ReturnsEarly(cl)
    THEN UNCHANGED <<isProcessing, items, runs>>
    ELSE LET item == PendingItems(cl.items)[1] IN
         /\ isProcessing' = TRUE
         /\ items' = MarkProcessing(items, item.id)
         /\ runs' = runs \cup {[id |-> item.id, file |-> item.file,
                                pc |-> "loadImage", closure |-> cl]}

HandleFileSelect(fs) ==
    LET new == NewItems(fs, nextId) IN
    /\ nextId + Len(new) <= MaxIds + 1
    /\ items' = items \o new
    /\ nextId' = nextId + Len(new)
    /\ UNCHANGED <<isProcessing, runs, timers>>
    /\ BatchFrame

RemoveItem(id) ==
    /\ id \in Ids(items)
    /\ items' = SelectSeq(items, LAMBDA i : i.id # id)
    /\ UNCHANGED <<isProcessing, runs, timers, nextId>>
    /\ BatchFrame

ClearAllUnguarded ==
    /\ items' = <<>>
    /\ UNCHANGED <<isProcessing, runs, timers, nextId>>
    /\ BatchFrame

\* lines 62-67: nothing happens while isProcessing
ClearAll ==
    /\ ~isProcessing
    /\ items' = <<>>
    /\ UNCHANGED <<isProcessing, runs, timers, nextId>>
    /\ BatchFrame

StartBatchProcessing ==
    /\ Len(PendingItems(items)) # 0
    /\ ProcessNext(Closure(items, isProcessing))
    /\ UNCHANGED <<timers, nextId>>
    /\ BatchFrame

FinishKeepingBusy(r, its) ==
    /\ items' = its
    /\ runs' = runs \ {r}
    /\ timers' = Append(timers, r.closure)
    /\ UNCHANGED <<isProcessing, nextId>>
    /\ BatchFrame

\* the tail of processNext after try/catch: setIsProcessing(false) and
\* the setTimeout of the auto-continue callback
Finish(r, its) ==
    /\ items' = its
    /\ isProcessing' = FALSE
    /\ runs' = runs \ {r}
    /\ timers' = Append(timers, r.closure)
    /\ UNCHANGED nextId
    /\ BatchFrame

Advance(r, pc, its) ==
    /\ items' = its
    /\ runs' = (runs \ {r}) \cup {[r EXCEPT !.pc = pc]}
    /\ UNCHANGED <<isProcessing, timers, nextId>>
    /\ BatchFrame

\* await loadImage(item.file); on success removeBackground runs to its first
\* await: onProgress(10), onProgress(30), pipeline(...)
LoadImageSettles(r) ==
    /\ r \in runs /\ r.pc = "loadImage"
    /\ \E ok \in BOOLEAN :
        IF ok
        THEN Advance(r, "pipeline",
                     OnProgress(OnProgress(items, r.id, 10), r.id, 30))
        ELSE Finish(r, MarkError(items, r.id, UnknownError))

\* await pipeline(...); then onProgress(50), the 2d context, the resize,
\* onProgress(70) and the segmenter call
PipelineSettles(r) ==
    /\ r \in runs /\ r.pc = "pipeline"
    /\ \E res \in {"ok", "noContext"} \cup PipelineErrors :
        LET at50 == OnProgress(items, r.id, 50) IN
        CASE res = "ok" ->
                Advance(r, "segmenter", OnProgress(at50, r.id, 70))
          [] res = "noContext" ->
                Finish(r, MarkError(at50, r.id, "Could not get canvas context"))
          [] OTHER ->
                Finish(r, MarkError(items, r.id, res))

\* await segmenter(imageData); then the checks of the result, the mask,
\* the output canvas, the alpha loop, onProgress(100) and toBlob
SegmenterSettles(r) ==
    /\ r \in runs /\ r.pc = "segmenter"
    /\ \E res \in {"ok", "invalid", "noMask", "noContext"} \cup SegmenterErrors :
        LET at85 == OnProgress(items, r.id, 85)
            at90 == OnProgress(at85, r.id, 90)
        IN
        CASE res = "ok" ->
                Advance(r, "toBlob", OnProgress(at90, r.id, 100))
          [] res = "invalid" ->
                Finish(r, MarkError(items, r.id, "Invalid segmentation result"))
          [] res = "noMask" ->
                Finish(r, MarkError(at85, r.id,
                          "No suitable mask found for background removal"))
          [] res = "noContext" ->
                Finish(r, MarkError(at90, r.id,
                          "Could not get output canvas context"))
          [] OTHER ->
                Finish(r, MarkError(items, r.id, res))

\* the toBlob callback: resolve(blob) or reject('Failed to create blob')
ToBlobSettles(r) ==
    /\ r \in runs /\ r.pc = "toBlob"
    /\ \E ok \in BOOLEAN :
        IF ok
        THEN Finish(r, MarkCompleted(items, r.id, CutoutOf(r.file)))
        ELSE Finish(r, MarkError(items, r.id, "Failed to create blob"))

RemainingPendingOthers(cl) ==
    LET first == PendingItems(cl.items)[1] IN
    SelectSeq(cl.items, LAMBDA item : item.status = "pending" /\ item.id # first.id)

\* lines 117-119: the filter's parameter `item` shadows the processed item,
\* so the second conjunct compares an item's id with itself
RemainingPending(cl) ==
    SelectSeq(cl.items, LAMBDA item : item.status = "pending" /\ item.id # item.id)

\* the setTimeout callback of a finished run, 1000 ms later: it reads the
\* `items` of its closure and calls the processNext of that same closure
TimerFires ==
    /\ timers # <<>>
    /\ timers' = Tail(timers)
    /\ IF Len(RemainingPending(Head(timers))) > 0
       THEN ProcessNext(Head(timers))
       ELSE UNCHANGED <<isProcessing, items, runs>>
    /\ UNCHANGED nextId
    /\ BatchFrame

BatchInit ==
    /\ items = <<>>
    /\ isProcessing = FALSE
    /\ runs = {}
    /\ timers = <<>>
    /\ nextId = 1

BatchNext ==
    \/ \E fs \in FileLists : HandleFileSelect(fs)
    \/ \E id \in 1..MaxIds : RemoveItem(id)
    \/ ClearAll
    \/ StartBatchProcessing
    \/ \E r \in runs : LoadImageSettles(r)
    \/ \E r \in runs : PipelineSettles(r)
    \/ \E r \in runs : SegmenterSettles(r)
    \/ \E r \in runs : ToBlobSettles(r)
    \/ TimerFires

(***************************************************************************)
(* Properties of the batch queue                                           *)
(***************************************************************************)
\* C1 (as claimed): after an item failed and was marked 'error', processing
\* continues with the next pending item without a user action: when the
\* follow-up callback of the failed run fires while nothing is being
\* processed and pending items remain, the first pending item starts
\* processing.
C1_ContinuesWithNextPending ==
    [][(/\ timers # <<>>
        /\ timers' = Tail(timers)
        /\ \E k \in DOMAIN items :
              /\ items[k].id = Head(timers).items[1].id
              /\ items[k].status = "error"
        /\ ~isProcessing
        /\ PendingItems(items) # <<>>)
       => (/\ isProcessing'
           /\ \E k \in DOMAIN items' :
                 /\ items'[k].id = PendingItems(items)[1].id
                 /\ items'[k].status = "processing")]_vars

\* C2: at most one item is 'processing' in every state; the item a step
\* moves to 'processing' is the first pending item of the queue; and no
\* item starts while the run of another item is still awaiting a call.
C2_OneAtATimeInPendingOrder ==
    /\ [](Cardinality({k \in DOMAIN items :
                          items[k].status = "processing"}) <= 1)
    /\ [][\A k \in DOMAIN items' :
             (/\ items'[k].status = "processing"
              /\ \A j \in DOMAIN items :
                    items[j].id = items'[k].id
                        => items[j].status # "processing")
             => (/\ PendingItems(items) # <<>>
                 /\ PendingItems(items)[1].id = items'[k].id
                 /\ runs = {})]_vars

\* C2 witness: the second item is being processed after the first one
\* ended, with a third still pending behind it.
C2_Witness ==
    /\ Len(items) >= 3
    /\ items[1].status \in {"completed", "error"}
    /\ items[2].status = "processing"
    /\ items[3].status = "pending"
    /\ \E r \in runs : r.id = items[2].id /\ r.pc = "segmenter"

\* C3: the status of an item that stays in the queue changes only
\* pending -> processing, processing -> completed or processing -> error;
\* a completed or failed item keeps its status for as long as it is queued.
C3_StatusTransitionsOneWay ==
    [][\A j \in DOMAIN items : \A k \in DOMAIN items' :
          items[j].id = items'[k].id
          => \/ items'[k].status = items[j].status
             \/ /\ items[j].status = "pending"
                /\ items'[k].status = "processing"
             \/ /\ items[j].status = "processing"
                /\ items'[k].status \in {"completed", "error"}]_vars

\* C3 witness: a completed and a failed item are still queued while a
\* later item is being processed and the follow-up timers have all fired.
C3_Witness ==
    /\ \E k \in DOMAIN items : items[k].status = "completed"
    /\ \E k \in DOMAIN items : items[k].status = "error"
    /\ \E k \in DOMAIN items : items[k].status = "processing"
    /\ timers = <<>>

\* C4: a run only ever starts for an item that is queued and pending at
\* that moment, and an id that has left the queue never comes back, so a
\* removed pending item is never processed; and every step (progress,
\* completion, failure) of a run whose item has been removed leaves the
\* whole queue as it was.
C4_RemovedItemsStayOut ==
    /\ [][\A r \in runs' :
             (\A q \in runs : q.id # r.id)
             => \E k \in DOMAIN items :
                   items[k].id = r.id /\ items[k].status = "pending"]_vars
    /\ [][\A k \in DOMAIN items' :
             items'[k].id \in Ids(items) \/ items'[k].id >= nextId]_vars
    /\ [][\A r \in runs :
             (r.id \notin Ids(items) /\ r \notin runs')
             => items' = items]_vars

\* C4 witness: the in-flight item was removed while a pending item had
\* been removed before it, other items are queued, and the removed item's
\* work is about to complete.
C4_Witness ==
    /\ \E r \in runs : r.id \notin Ids(items) /\ r.pc = "toBlob"
    /\ \E k \in DOMAIN items : items[k].status = "pending"
    /\ \E id \in 1..(nextId - 1) :
          id \notin Ids(items) /\ \A r \in runs : r.id # id

\* C25: while a run is suspended at an await of loadImage or
\* removeBackground (nothing bounds that wait), isProcessing is true and
\* clearAll does nothing; and every step that leaves the run suspended
\* keeps isProcessing true, keeps its item 'processing' for as long as the
\* item is queued, and makes no other item 'processing' and starts no
\* other run.
C25_StallKeepsBatchBusy ==
    /\ [](runs # {} => (isProcessing /\ ~ENABLED ClearAll))
    /\ [][\A r \in runs :
             (\E q \in runs' : q.id = r.id)
             => /\ isProcessing'
                /\ \A q \in runs' : q.id = r.id
                /\ \A k \in DOMAIN items' :
                      items'[k].status = "processing" <=> items'[k].id = r.id]_vars

\* C25 witness: the first item's run is suspended at the segmenter call
\* with two pending items queued behind it.
C25_Witness ==
    /\ Len(items) = 3
    /\ items[1].status = "processing"
    /\ items[2].status = "pending" /\ items[3].status = "pending"
    /\ isProcessing
    /\ \E r \in runs : r.id = items[1].id /\ r.pc = "segmenter"

C27_BusyBracketsRun ==
    /\ []((\E k \in DOMAIN items : items[k].status = "processing")
             => isProcessing)
    /\ [][\A r \in runs :
             (\A q \in runs' : q.id # r.id) => ~isProcessing']_vars
    /\ []((~isProcessing /\ PendingItems(items) # <<>>)
             => ENABLED (/\ StartBatchProcessing
                         /\ isProcessing'
                         /\ \E r \in runs' : r.id = PendingItems(items)[1].id))

\* C27 witness: the first item's run has failed and its timer has fired,
\* nothing is being processed and the second item is still pending.
C27_Witness ==
    /\ Len(items) >= 2
    /\ items[1].status = "error"
    /\ items[2].status = "pending"
    /\ ~isProcessing
    /\ runs = {}
    /\ timers = <<>>

(***************************************************************************)
(* removeBackground's alpha loop                                           *)
(*   lib/backgroundRemoval.ts 79-91, BackgroundRemover.tsx 221-229         *)
(***************************************************************************)
\* mask values, as rationals <<numerator, denominator>>: -1/4, 0, 1/4, 1/2,
\* 1 and 5/4 (values outside [0,1] are what the clamp is about)
MaskValues == {<<-1, 4>>, <<0, 1>>, <<1, 4>>, <<1, 2>>, <<1, 1>>, <<5, 4>>}

\* RGBA pixels an image can hold
Pixels == {<<10, 20, 30, 255>>, <<200, 100, 0, 128>>}

RECURSIVE Flatten(_)
\* ImageData.data: the pixels' channels interleaved, row-major
Flatten(px) == IF px = <<>> THEN <<>> ELSE Head(px) \o Flatten(Tail(px))

Rasters ==
    {[width |-> w, height |-> h, data |-> Flatten(px)] :
        <<w, h, px>> \in
            UNION {{<<w, h, px>> : px \in [1..(w * h) -> Pixels]} :
                   <<w, h>> \in {d \in (1..MaxPixels) \X (1..MaxPixels) :
                                   d[1] * d[2] <= MaxPixels}}}

Masks == UNION {[1..n -> MaskValues] : n \in 0..(MaxPixels + 1)}

\* Math.round(x) for x = num / den, den > 0: floor(x + 1/2)
MathRound(num, den) == (2 * num + den) \div (2 * den)

\* a store into a Uint8ClampedArray clamps to 0..255
ToUint8Clamped(v) == IF v < 0 THEN 0 ELSE IF v > 255 THEN 255 ELSE v

\* typed-array store data[k] = v (k is the 0-based index): a store past the
\* end of the buffer is ignored
Store(data, k, v) ==
    IF k + 1 \in DOMAIN data
    THEN [data EXCEPT ![k + 1] = ToUint8Clamped(v)]
    ELSE data

\* lib/backgroundRemoval.ts 87: Math.round(maskValue * 255)
AlphaLib(m) == MathRound(m[1] * 255, m[2])

\* BackgroundRemover.tsx 225: Math.round((1 - mask.data[i]) * 255)
AlphaInline(m) == MathRound((m[2] - m[1]) * 255, m[2])

RECURSIVE MaskLoop(_, _, _)
\* for (let i = 0; i < mask.length; i++) data[i * 4 + 3] = alpha
\* i is the 0-based loop index; alphas[i + 1] is the alpha computed for mask[i]
MaskLoop(data, alphas, i) ==
    IF i >= Len(alphas) THEN data
    ELSE MaskLoop(Store(data, i * 4 + 3, alphas[i + 1]), alphas, i + 1)

ApplyMaskLib(data, m) ==
    MaskLoop(data, [k \in DOMAIN m |-> AlphaLib(m[k])], 0)

ApplyMaskInline(data, m) ==
    MaskLoop(data, [k \in DOMAIN m |-> AlphaInline(m[k])], 0)

\* lib/backgroundRemoval.ts: the loop over personMask.data, then putImageData
RunMaskLoopLib ==
    /\ maskOutcome \in {"pending", "lib"}
    /\ outputData' = ApplyMaskLib(outputData, mask)
    /\ maskOutcome' = "lib"
    /\ UNCHANGED <<raster, mask>>
    /\ MaskFrame

\* BackgroundRemover.tsx: the loop over result[0].mask.data
RunMaskLoopInline ==
    /\ maskOutcome \in {"pending", "inline"}
    /\ outputData' = ApplyMaskInline(outputData, mask)
    /\ maskOutcome' = "inline"
    /\ UNCHANGED <<raster, mask>>
    /\ MaskFrame

\* outputCtx.drawImage(canvas, 0, 0); getImageData(...): the buffer starts
\* as a copy of the canvas the image was drawn on
MaskInit ==
    /\ raster \in Rasters
    /\ mask \in Masks
    /\ outputData = raster.data
    /\ maskOutcome = "pending"

MaskNext ==
    \/ RunMaskLoopLib
    \/ RunMaskLoopInline

(***************************************************************************)
(* Properties of the alpha loop                                            *)
(***************************************************************************)
\* C8 (as claimed): with a mask whose length differs from width * height
\* the loop fails with DimensionMismatch and no alpha value is written.
C8_MismatchFailsAndWritesNothing ==
    (maskOutcome # "pending" /\ Len(mask) # raster.width * raster.height)
    => (maskOutcome = "DimensionMismatch" /\ outputData = raster.data)

\* C9 (as claimed): with a mask of exactly width * height values, after
\* the loop the alpha of pixel i is round(clamp(M[i], 0, 1) * 255) and the
\* R, G and B channels of every pixel are what they were.
C9_AlphaIsRoundedClampedMask ==
    (maskOutcome # "pending" /\ Len(mask) = raster.width * raster.height)
    => \A i \in DOMAIN mask :
          LET clamped == IF mask[i][1] < 0 THEN 0
                         ELSE IF mask[i][1] > mask[i][2] THEN mask[i][2]
                         ELSE mask[i][1]
          IN
          /\ outputData[4 * i] = MathRound(clamped * 255, mask[i][2])
          /\ \A c \in 1..3 :
                outputData[4 * (i - 1) + c] = raster.data[4 * (i - 1) + c]

(***************************************************************************)
(* The page, AdvancedControls and ImageComposer.tsx                        *)
(***************************************************************************)
\* the cutouts handleImageProcessed can receive and the URLs
\* handleBackgroundGenerated can receive, with the sizes of their images
Blobs == {"cutout100"}
Urls == {"bg200", "bg300x100"}

ImageWidth(img) ==
    CASE img = "cutout100" -> 100
      [] img = "cutout400x50" -> 400
      [] img = "bg200" -> 200
      [] img = "bg300x100" -> 300

ImageHeight(img) ==
    CASE img = "cutout100" -> 100
      [] img = "cutout400x50" -> 50
      [] img = "bg200" -> 200
      [] img = "bg300x100" -> 100

\* clientX / clientY of the mouse events
Points == {[x |-> 0, y |-> 0], [x |-> 30, y |-> 10]}

\* the (key, value) pairs the controls hand to updateSetting
SettingUpdates ==
    {<<"edgeDetection", TRUE>>, <<"brightness", 20>>}

\* AdvancedControls' initial state
DefaultSettings ==
    [edgeDetection |-> FALSE, snapToGrid |-> FALSE, blendMode |-> "normal",
     opacity |-> 100, brightness |-> 0, contrast |-> 0, saturation |-> 0,
     hue |-> 0, shadows |-> 0, highlights |-> 0, temperature |-> 0,
     aiEnhancement |-> FALSE, qualityMode |-> "standard"]

RECURSIVE GCD(_, _)
GCD(a, b) == IF b = 0 THEN a ELSE GCD(b, a % b)

\* the number num / den (den > 0) in lowest terms
Rat(num, den) ==
    LET g == GCD(IF num < 0 THEN -num ELSE num, den) IN <<num \div g, den \div g>>

\* the grid step of the snap and of the grid overlay
GridSize == 20

\* what a composeImage call closes over: the props and state of its render
CurrentClosure ==
    [foregroundBlob |-> foregroundBlob, backgroundUrl |-> backgroundUrl,
     advancedSettings |-> advancedSettings, scale |-> scale,
     position |-> position, showGrid |-> showGrid, showEdges |-> showEdges]

\* the snap applied to the offset alone, before the centring
ForegroundRectSnapOffset(cl) ==
    LET fg == cl.foregroundBlob[1]
        bg == cl.backgroundUrl[1]
        n == cl.scale[1]
        d == cl.scale[2]
        snap == cl.advancedSettings # <<>> /\ cl.advancedSettings[1].snapToGrid
        px == IF snap THEN MathRound(cl.position.x, GridSize) * GridSize
              ELSE cl.position.x
        py == IF snap THEN MathRound(cl.position.y, GridSize) * GridSize
              ELSE cl.position.y
    IN
    [x |-> Rat(ImageWidth(bg) * d - ImageWidth(fg) * n + 2 * px * d, 2 * d),
     y |-> Rat(ImageHeight(bg) * d - ImageHeight(fg) * n + 2 * py * d, 2 * d),
     w |-> Rat(ImageWidth(fg) * n, d),
     h |-> Rat(ImageHeight(fg) * n, d)]

\* lines 85-96: the foreground's size and position, as rationals
ForegroundRect(cl) ==
    LET fg == cl.foregroundBlob[1]
        bg == cl.backgroundUrl[1]
        n == cl.scale[1]
        d == cl.scale[2]
        \* (canvas - fgImg * scale) / 2 + position
        x == Rat(ImageWidth(bg) * d - ImageWidth(fg) * n + 2 * cl.position.x * d,
                 2 * d)
        y == Rat(ImageHeight(bg) * d - ImageHeight(fg) * n + 2 * cl.position.y * d,
                 2 * d)
        snap == cl.advancedSettings # <<>> /\ cl.advancedSettings[1].snapToGrid
    IN
    [x |-> IF snap THEN <<MathRound(x[1], GridSize * x[2]) * GridSize, 1>> ELSE x,
     y |-> IF snap THEN <<MathRound(y[1], GridSize * y[2]) * GridSize, 1>> ELSE y,
     w |-> Rat(ImageWidth(fg) * n, d),
     h |-> Rat(ImageHeight(fg) * n, d)]

\* lines 80-83 and 130-154: the pass over the pixels runs when brightness,
\* contrast or saturation is set
GradeOps(cl) ==
    IF /\ cl.advancedSettings # <<>>
       /\ \/ cl.advancedSettings[1].brightness # 0
          \/ cl.advancedSettings[1].contrast # 0
          \/ cl.advancedSettings[1].saturation # 0
    THEN <<[op |-> "grade",
            brightness |-> cl.advancedSettings[1].brightness,
            contrast |-> cl.advancedSettings[1].contrast,
            saturation |-> cl.advancedSettings[1].saturation]>>
    ELSE <<>>

\* the 2d context's compositing state as a context starts with it
DefaultContext == [composite |-> "source-over", alphaPercent |-> 100]

\* a canvas element as created: 300 x 150, transparent
BlankCanvas ==
    [width |-> 300, height |-> 150, ops |-> <<>>, ctx |-> DefaultContext]

\* a canvas that only ever grows
SetCanvasSizeGrowing(cv, w, h) ==
    [width |-> IF cv.width > w THEN cv.width ELSE w,
     height |-> IF cv.height > h THEN cv.height ELSE h,
     ops |-> <<>>, ctx |-> DefaultContext]

\* a canvas that is left as it is when it already has the size
SetCanvasSizeKeeping(cv, w, h) ==
    IF cv.width = w /\ cv.height = h THEN cv
    ELSE [width |-> w, height |-> h, ops |-> <<>>, ctx |-> DefaultContext]

\* lines 74-75: assigning canvas.width / canvas.height clears the bitmap and
\* resets the context to its default state
SetCanvasSize(cv, w, h) ==
    [width |-> w, height |-> h, ops |-> <<>>, ctx |-> DefaultContext]

\* a drawImage / stroke call: it is composited with the context's current
\* globalCompositeOperation and globalAlpha
Draw(cv, op) ==
    [cv EXCEPT !.ops = Append(@, [op |-> op.op, what |-> op,
                                   composite |-> cv.ctx.composite,
                                   alphaPercent |-> cv.ctx.alphaPercent])]

RECURSIVE DrawAll(_, _)
DrawAll(cv, ops) ==
    IF ops = <<>> THEN cv ELSE DrawAll(Draw(cv, Head(ops)), Tail(ops))

\* lines 98-104: the blend mode is set when it is not 'normal', the opacity
\* whenever there are settings
SetBlend(ctx, cl) ==
    LET s == cl.advancedSettings IN
    [composite |-> IF s # <<>> /\ s[1].blendMode # "normal"
                   THEN s[1].blendMode ELSE ctx.composite,
     alphaPercent |-> IF s # <<>> THEN s[1].opacity ELSE ctx.alphaPercent]

\* a reset of the opacity alone
ResetBlendAlphaOnly(ctx) == [ctx EXCEPT !.alphaPercent = 100]

\* lines 109-111
ResetBlend(ctx) == [composite |-> "source-over", alphaPercent |-> 100]

\* line 107: drawImage(fgImg, fgX, fgY, fgWidth, fgHeight)
ForegroundOps(cl) ==
    <<[op |-> "foreground", img |-> cl.foregroundBlob[1],
       rect |-> ForegroundRect(cl)]>>

\* lines 113-121: the grid and the dashed bounding box, drawn last
OverlayOps(cl) ==
    (IF cl.showGrid THEN <<[op |-> "grid", step |-> GridSize]>> ELSE <<>>)
    \o (IF /\ cl.showEdges
           /\ cl.advancedSettings # <<>>
           /\ cl.advancedSettings[1].edgeDetection
        THEN <<[op |-> "edgeBox", rect |-> ForegroundRect(cl)]>>
        ELSE <<>>)

\* the same drawing with the grading pass run after the foreground draw
ComposeOnGradeLast(cv, cl) ==
    LET sized == SetCanvasSize(cv, ImageWidth(cl.backgroundUrl[1]),
                               ImageHeight(cl.backgroundUrl[1]))
        withBg == Draw(sized, [op |-> "background", img |-> cl.backgroundUrl[1]])
        blending == [withBg EXCEPT !.ctx = SetBlend(@, cl)]
        withFg == DrawAll(blending, ForegroundOps(cl))
        graded == DrawAll(withFg, GradeOps(cl))
        reset == [graded EXCEPT !.ctx = ResetBlend(@)]
    IN DrawAll(reset, OverlayOps(cl))

\* lines 73-121: the synchronous part of composeImage on the canvas cv
ComposeOn(cv, cl) ==
    LET sized == SetCanvasSize(cv, ImageWidth(cl.backgroundUrl[1]),
                               ImageHeight(cl.backgroundUrl[1]))
        withBg == Draw(sized, [op |-> "background", img |-> cl.backgroundUrl[1]])
        graded == DrawAll(withBg, GradeOps(cl))
        blending == [graded EXCEPT !.ctx = SetBlend(@, cl)]
        withFg == DrawAll(blending, ForegroundOps(cl))
        reset == [withFg EXCEPT !.ctx = ResetBlend(@)]
    IN DrawAll(reset, OverlayOps(cl))

\* what composeImage draws on a canvas nothing was drawn on before
Composite(cl) == ComposeOn(BlankCanvas, cl)

\* lines 229-237: the canvas and the buttons exist once both images do
Rendered == foregroundBlob # <<>> /\ backgroundUrl # <<>>

\* the useEffect of lines 33-37 after a render in which a dependency changed:
\* composeImage runs up to its first await, closing over cl
ComposeEffect(cl) ==
    IF cl.foregroundBlob # <<>> /\ cl.backgroundUrl # <<>>
    THEN /\ Len(history) < MaxCalls
         /\ calls' = calls \cup {[n |-> Len(history) + 1, pc |-> "background"]}
         /\ history' = Append(history, [closure |-> cl, status |-> "loading"])
    ELSE UNCHANGED <<calls, history>>

\* page: handleImageProcessed (every processed image is a new Blob)
HandleImageProcessed(blob) ==
    /\ foregroundBlob' = <<blob>>
    /\ ComposeEffect([CurrentClosure EXCEPT !.foregroundBlob = <<blob>>])
    /\ UNCHANGED <<backgroundUrl, advancedSettings, settings, scale, position,
                   isDragging, dragStart, dragOrigin, showGrid, showEdges, canvas,
                   composeToasts, downloaded>>
    /\ ComposeFrame

\* page: handleBackgroundGenerated (an equal string is no state change)
HandleBackgroundGenerated(url) ==
    /\ backgroundUrl # <<url>>
    /\ backgroundUrl' = <<url>>
    /\ ComposeEffect([CurrentClosure EXCEPT !.backgroundUrl = <<url>>])
    /\ UNCHANGED <<foregroundBlob, advancedSettings, settings, scale, position,
                   isDragging, dragStart, dragOrigin, showGrid, showEdges, canvas,
                   composeToasts, downloaded>>
    /\ ComposeFrame

UpdateSettingLocal(key, value) ==
    LET newSettings == [settings EXCEPT ![key] = value] IN
    /\ settings' = newSettings
    /\ UNCHANGED <<foregroundBlob, backgroundUrl, advancedSettings, scale,
                   position, isDragging, dragStart, dragOrigin, showGrid,
                   showEdges, canvas, calls, history, composeToasts, downloaded>>
    /\ ComposeFrame

\* AdvancedControls: updateSetting, which calls the page's
\* handleAdvancedSettingsChange with the new settings object
UpdateSetting(key, value) ==
    LET newSettings == [settings EXCEPT ![key] = value] IN
    /\ settings' = newSettings
    /\ advancedSettings' = <<newSettings>>
    /\ ComposeEffect([CurrentClosure EXCEPT !.advancedSettings = <<newSettings>>])
    /\ UNCHANGED <<foregroundBlob, backgroundUrl, scale, position, isDragging,
                   dragStart, dragOrigin, showGrid, showEdges, canvas, composeToasts,
                   downloaded>>
    /\ ComposeFrame

\* AdvancedControls: the Reset to Defaults button builds a new settings
\* object with the default values, sets it and hands it to the page
ResetSettings ==
    /\ settings' = DefaultSettings
    /\ advancedSettings' = <<DefaultSettings>>
    /\ ComposeEffect([CurrentClosure EXCEPT !.advancedSettings = <<DefaultSettings>>])
    /\ UNCHANGED <<foregroundBlob, backgroundUrl, scale, position, isDragging,
                   dragStart, dragOrigin, showGrid, showEdges, canvas,
                   composeToasts, downloaded>>
    /\ ComposeFrame

\* the zoom buttons: setScale(scale * 1.1) and setScale(scale * 0.9)
Zoom(num, den) ==
    /\ Rendered
    /\ scale' = Rat(scale[1] * num, scale[2] * den)
    /\ ComposeEffect([CurrentClosure EXCEPT !.scale = scale'])
    /\ UNCHANGED <<foregroundBlob, backgroundUrl, advancedSettings, settings,
                   position, isDragging, dragStart, dragOrigin, showGrid, showEdges, canvas,
                   composeToasts, downloaded>>
    /\ ComposeFrame

ZoomIn == Zoom(11, 10)

ZoomOut == Zoom(9, 10)

ToggleGrid ==
    /\ Rendered
    /\ showGrid' = ~showGrid
    /\ ComposeEffect([CurrentClosure EXCEPT !.showGrid = ~showGrid])
    /\ UNCHANGED <<foregroundBlob, backgroundUrl, advancedSettings, settings,
                   scale, position, isDragging, dragStart, dragOrigin, showEdges, canvas,
                   composeToasts, downloaded>>
    /\ ComposeFrame

ToggleEdges ==
    /\ Rendered
    /\ showEdges' = ~showEdges
    /\ ComposeEffect([CurrentClosure EXCEPT !.showEdges = ~showEdges])
    /\ UNCHANGED <<foregroundBlob, backgroundUrl, advancedSettings, settings,
                   scale, position, isDragging, dragStart, dragOrigin, showGrid, canvas,
                   composeToasts, downloaded>>
    /\ ComposeFrame

ResetTransformEndingDrag ==
    /\ Rendered
    /\ scale' = <<1, 1>>
    /\ position' = [x |-> 0, y |-> 0]
    /\ isDragging' = FALSE
    /\ ComposeEffect([CurrentClosure EXCEPT !.scale = <<1, 1>>,
                                            !.position = [x |-> 0, y |-> 0]])
    /\ UNCHANGED <<foregroundBlob, backgroundUrl, advancedSettings, settings,
                   dragStart, dragOrigin, showGrid, showEdges, canvas,
                   composeToasts, downloaded>>
    /\ ComposeFrame

\* resetTransform: the new position object changes the effect's dependencies
\* even when the numbers are the old ones
ResetTransform ==
    /\ Rendered
    /\ scale' = <<1, 1>>
    /\ position' = [x |-> 0, y |-> 0]
    /\ ComposeEffect([CurrentClosure EXCEPT !.scale = <<1, 1>>,
                                            !.position = [x |-> 0, y |-> 0]])
    /\ UNCHANGED <<foregroundBlob, backgroundUrl, advancedSettings, settings,
                   isDragging, dragStart, dragOrigin, showGrid, showEdges, canvas,
                   composeToasts, downloaded>>
    /\ ComposeFrame

HandleMouseDownAbsolute(e) ==
    /\ Rendered
    /\ isDragging' = TRUE
    /\ dragStart' = [x |-> e.x, y |-> e.y]
    /\ dragOrigin' = <<[at |-> e, position |-> position]>>
    /\ UNCHANGED <<foregroundBlob, backgroundUrl, advancedSettings, settings,
                   scale, position, showGrid, showEdges, canvas, calls, history,
                   composeToasts, downloaded>>
    /\ ComposeFrame

\* lines 187-190
HandleMouseDown(e) ==
    /\ Rendered
    /\ isDragging' = TRUE
    /\ dragStart' = [x |-> e.x - position.x, y |-> e.y - position.y]
    /\ dragOrigin' = <<[at |-> e, position |-> position]>>
    /\ UNCHANGED <<foregroundBlob, backgroundUrl, advancedSettings, settings,
                   scale, position, showGrid, showEdges, canvas, calls, history,
                   composeToasts, downloaded>>
    /\ ComposeFrame

HandleMouseMove(e) ==
    /\ Rendered
    /\ isDragging
    /\ position' = [x |-> e.x - dragStart.x, y |-> e.y - dragStart.y]
    /\ ComposeEffect([CurrentClosure EXCEPT !.position = position'])
    /\ UNCHANGED <<foregroundBlob, backgroundUrl, advancedSettings, settings,
                   scale, isDragging, dragStart, dragOrigin, showGrid, showEdges, canvas,
                   composeToasts, downloaded>>
    /\ ComposeFrame

\* onMouseUp and onMouseLeave
HandleMouseUp ==
    /\ Rendered
    /\ isDragging' = FALSE
    /\ UNCHANGED <<foregroundBlob, backgroundUrl, advancedSettings, settings,
                   scale, position, dragStart, dragOrigin, showGrid, showEdges, canvas,
                   calls, history, composeToasts, downloaded>>
    /\ ComposeFrame

\* downloadImage: canvas.toBlob encodes the canvas as it is at the call
DownloadImage ==
    /\ Rendered
    /\ downloaded' = <<canvas>>
    /\ UNCHANGED <<foregroundBlob, backgroundUrl, advancedSettings, settings,
                   scale, position, isDragging, dragStart, dragOrigin, showGrid, showEdges,
                   canvas, calls, history, composeToasts>>
    /\ ComposeFrame

ComposeFailsClearing(c) ==
    /\ calls' = calls \ {c}
    /\ history' = [history EXCEPT ![c.n].status = "failed"]
    /\ composeToasts' = composeToasts + 1
    /\ canvas' = [canvas EXCEPT !.ops = <<>>]

\* the catch of composeImage: console.error and toast.error
ComposeFails(c) ==
    /\ calls' = calls \ {c}
    /\ history' = [history EXCEPT ![c.n].status = "failed"]
    /\ composeToasts' = composeToasts + 1
    /\ UNCHANGED canvas

\* the background image's onload or onerror (lines 51-58)
BackgroundSettles(c) ==
    /\ c \in calls /\ c.pc = "background"
    /\ \E ok \in BOOLEAN :
        IF ok
        THEN /\ calls' = (calls \ {c}) \cup {[c EXCEPT !.pc = "foreground"]}
             /\ UNCHANGED <<history, composeToasts, canvas>>
        ELSE ComposeFails(c)
    /\ UNCHANGED <<foregroundBlob, backgroundUrl, advancedSettings, settings,
                   scale, position, isDragging, dragStart, dragOrigin, showGrid, showEdges,
                   downloaded>>
    /\ ComposeFrame

\* the foreground image's onload or onerror (lines 64-71), and on success
\* the rest of composeImage, which has no further await
ForegroundSettles(c) ==
    /\ c \in calls /\ c.pc = "foreground"
    /\ \E ok \in BOOLEAN :
        IF ok
        THEN /\ canvas' = ComposeOn(canvas, history[c.n].closure)
             /\ calls' = calls \ {c}
             /\ history' = [history EXCEPT ![c.n].status = "drawn"]
             /\ UNCHANGED composeToasts
        ELSE ComposeFails(c)
    /\ UNCHANGED <<foregroundBlob, backgroundUrl, advancedSettings, settings,
                   scale, position, isDragging, dragStart, dragOrigin, showGrid, showEdges,
                   downloaded>>
    /\ ComposeFrame

ComposeInit ==
    /\ foregroundBlob = <<>>
    /\ backgroundUrl = <<>>
    /\ advancedSettings = <<>>
    /\ settings = DefaultSettings
    /\ scale = <<1, 1>>
    /\ position = [x |-> 0, y |-> 0]
    /\ isDragging = FALSE
    /\ dragStart = [x |-> 0, y |-> 0]
    /\ dragOrigin = <<>>
    /\ showGrid = FALSE
    /\ showEdges = FALSE
    /\ canvas = BlankCanvas
    /\ calls = {}
    /\ history = <<>>
    /\ composeToasts = 0
    /\ downloaded = <<>>

ComposeNext ==
    \/ \E blob \in Blobs : HandleImageProcessed(blob)
    \/ \E url \in Urls : HandleBackgroundGenerated(url)
    \/ \E u \in SettingUpdates : UpdateSetting(u[1], u[2])
    \/ ResetSettings
    \/ ZoomIn
    \/ ZoomOut
    \/ ToggleGrid
    \/ ToggleEdges
    \/ ResetTransform
    \/ \E e \in Points : HandleMouseDown(e)
    \/ \E e \in Points : HandleMouseMove(e)
    \/ HandleMouseUp
    \/ DownloadImage
    \/ \E c \in calls : BackgroundSettles(c)
    \/ \E c \in calls : ForegroundSettles(c)

(***************************************************************************)
(* Properties of the settings                                              *)
(***************************************************************************)
\* C30 (as claimed): in every state, the first one included, the page's
\* advancedSettings, which the compositor gets, are the settings of the
\* controls.
C30_ComposerSettingsEqualControls == advancedSettings = <<settings>>

\* C30 (amended): until the first change or reset the page's
\* advancedSettings are undefined while the controls hold the defaults, and
\* the composite drawn is the one the defaults give; from the first change
\* or reset on they are the settings of the controls.  updateSetting sets
\* the named key and leaves every other key as it was, and every change
\* and every reset hands the new settings to the page and, once both
\* images are there, to a new composeImage call.
C30_SettingsForwarded ==
    /\ [](IF advancedSettings = <<>>
          THEN /\ settings = DefaultSettings
               /\ Rendered =>
                     Composite(CurrentClosure) =
                        Composite([CurrentClosure EXCEPT
                                      !.advancedSettings = <<DefaultSettings>>])
          ELSE advancedSettings = <<settings>>)
    /\ [][\A u \in SettingUpdates :
             UpdateSetting(u[1], u[2])
             => /\ settings'[u[1]] = u[2]
                /\ \A k \in DOMAIN settings \ {u[1]} : settings'[k] = settings[k]]_vars
    /\ [][((\E u \in SettingUpdates : UpdateSetting(u[1], u[2])) \/ ResetSettings)
          => /\ advancedSettings' = <<settings'>>
             /\ Rendered =>
                   /\ Len(history') = Len(history) + 1
                   /\ history'[Len(history')].closure.advancedSettings
                         = <<settings'>>]_vars

\* C30 witness: two settings were changed and a composeImage call drew
\* with exactly the settings the controls hold.
C30_Witness ==
    /\ settings.brightness = 20
    /\ settings.edgeDetection
    /\ advancedSettings = <<settings>>
    /\ \E n \in DOMAIN history :
          /\ history[n].status = "drawn"
          /\ history[n].closure.advancedSettings = <<settings>>

(***************************************************************************)
(* The gestures on a composite that is already shown                       *)
(*   ImageComposer.tsx 187-208, 250-285, 298-305                           *)
(***************************************************************************)
\* the scales one or two clicks on the zoom buttons lead to from 1
GestureScales == {<<1, 1>>, <<11, 10>>, <<9, 10>>, <<99, 100>>}

\* the offsets earlier drags between the Points lead to, with the dragStart
\* and the mouse-down they came from: no drag yet, a drag from (0, 0) to
\* (30, 10), a drag from (30, 10) to (0, 0)
GestureDrags ==
    {[position |-> [x |-> 0, y |-> 0], dragStart |-> [x |-> 0, y |-> 0],
      dragOrigin |-> <<>>],
     [position |-> [x |-> 30, y |-> 10], dragStart |-> [x |-> 0, y |-> 0],
      dragOrigin |-> <<[at |-> [x |-> 0, y |-> 0],
                        position |-> [x |-> 0, y |-> 0]]>>],
     [position |-> [x |-> -30, y |-> -10], dragStart |-> [x |-> 30, y |-> 10],
      dragOrigin |-> <<[at |-> [x |-> 30, y |-> 10],
                        position |-> [x |-> 0, y |-> 0]]>>]}

\* a cutout on a background, zoomed, dragged and with overlays switched as
\* the user left them; the mouse button is up; the composeImage calls made
\* so far are over and the last one drew, and `history` records the calls
\* made from here on
GestureInit ==
    /\ foregroundBlob = <<"cutout100">>
    /\ backgroundUrl = <<"bg200">>
    /\ advancedSettings = <<>>
    /\ settings = DefaultSettings
    /\ scale \in GestureScales
    /\ \E d \in GestureDrags :
          /\ position = d.position
          /\ dragStart = d.dragStart
          /\ dragOrigin = d.dragOrigin
    /\ isDragging = FALSE
    /\ showGrid \in BOOLEAN
    /\ showEdges \in BOOLEAN
    /\ canvas = Composite(CurrentClosure)
    /\ calls = {}
    /\ history = <<>>
    /\ composeToasts = 0
    /\ downloaded = <<>>

GestureNext ==
    \/ ZoomIn
    \/ ZoomOut
    \/ ResetTransform
    \/ \E e \in Points : HandleMouseDown(e)
    \/ \E e \in Points : HandleMouseMove(e)
    \/ HandleMouseUp
    \/ \E c \in calls : BackgroundSettles(c)
    \/ \E c \in calls : ForegroundSettles(c)

(***************************************************************************)
(* Properties of the gestures                                              *)
(***************************************************************************)
\* C22: whatever drags and zooms came before, a reset leaves scale 1 and
\* offset (0, 0), which is also what the composeImage call it triggers
\* closes over, and leaves showGrid, showEdges and isDragging as they were.
C22_ResetRestoresTransform ==
    [][ResetTransform
       => /\ scale' = <<1, 1>>
          /\ position' = [x |-> 0, y |-> 0]
          /\ showGrid' = showGrid
          /\ showEdges' = showEdges
          /\ isDragging' = isDragging
          /\ history'[Len(history')].closure.scale = <<1, 1>>
          /\ history'[Len(history')].closure.position = [x |-> 0, y |-> 0]
          /\ history'[Len(history')].closure.showGrid = showGrid
          /\ history'[Len(history')].closure.showEdges = showEdges]_vars

\* C22 witness: after a zoom-out of an enlarged, dragged cutout and a
\* mouse-down, a reset left scale 1 and offset (0, 0) with the grid still
\* on and the drag still active.
C22_Witness ==
    /\ Len(history) = 2
    /\ history[1].closure.scale = <<99, 100>>
    /\ history[1].closure.position = [x |-> 30, y |-> 10]
    /\ history[2].closure.scale = <<1, 1>>
    /\ history[2].closure.position = [x |-> 0, y |-> 0]
    /\ scale = <<1, 1>>
    /\ position = [x |-> 0, y |-> 0]
    /\ showGrid
    /\ isDragging

\* C29: apart from a reset, the offset changes only in a step taken while
\* isDragging, and then it becomes the offset at the mouse-down plus
\* (q - p) for the point p of the mouse-down and a point q; isDragging
\* becomes true by a mouse-down only and false by a mouse-up or mouse-leave
\* only; and a mouse-down leaves the offset as it is.
C29_OffsetFollowsDrag ==
    /\ [][(position' # position /\ ~ResetTransform)
          => /\ isDragging
             /\ dragOrigin # <<>>
             /\ \E q \in Points :
                   /\ position'.x =
                         dragOrigin[1].position.x + (q.x - dragOrigin[1].at.x)
                   /\ position'.y =
                         dragOrigin[1].position.y + (q.y - dragOrigin[1].at.y)]_vars
    /\ [][(isDragging' # isDragging)
          => IF isDragging' THEN \E e \in Points : HandleMouseDown(e)
             ELSE HandleMouseUp]_vars
    /\ [][(\E e \in Points : HandleMouseDown(e))
          => (position' = position /\ isDragging')]_vars

\* C29 witness: with the cutout at offset (30, 10), a mouse-down at (0, 0)
\* and a move to (30, 10) brought it to (60, 20).
C29_Witness ==
    /\ isDragging
    /\ dragOrigin = <<[at |-> [x |-> 0, y |-> 0],
                       position |-> [x |-> 30, y |-> 10]]>>
    /\ position = [x |-> 60, y |-> 20]

(***************************************************************************)
(* Properties of the preview canvas                                        *)
(***************************************************************************)
\* C5 (as claimed): what a download hands to the encoder holds neither the
\* grid lines nor the dashed bounding box, whatever the overlay toggles are.
C5_DownloadHasNoOverlays ==
    \A k \in DOMAIN downloaded :
        \A j \in DOMAIN downloaded[k].ops :
            downloaded[k].ops[j].op \notin {"grid", "edgeBox"}

\* C6 (as claimed): once every composeImage call has finished (here: has
\* drawn), the canvas holds the composite of the most recently triggered
\* call, whatever order the image loads completed in.
C6_CanvasOwnedByLatestCall ==
    (/\ calls = {}
     /\ history # <<>>
     /\ \A n \in DOMAIN history : history[n].status = "drawn")
    => canvas = Composite(history[Len(history)].closure)

\* C7: a composeImage call whose background or foreground fails to load
\* leaves the canvas (width, height, content) exactly as it was and shows
\* one error toast; a failed call is over: it stays failed and is no longer
\* suspended; and the toasts shown are as many as the calls that failed.
C7_FailedLoadLeavesCanvas ==
    /\ [][\A n \in DOMAIN history :
             (history[n].status = "loading" /\ history'[n].status = "failed")
             => (canvas' = canvas /\ composeToasts' = composeToasts + 1)]_vars
    /\ [](/\ \A n \in DOMAIN history :
               history[n].status = "failed" => \A c \in calls : c.n # n
          /\ composeToasts =
               Cardinality({n \in DOMAIN history : history[n].status = "failed"}))
    /\ [][\A n \in DOMAIN history :
             history[n].status = "failed" => history'[n].status = "failed"]_vars

\* C7 witness: a call drew its composite, a later call failed, and the
\* canvas still shows the earlier composite.
C7_Witness ==
    /\ Len(history) >= 2
    /\ history[1].status = "drawn"
    /\ history[2].status = "failed"
    /\ canvas = Composite(history[1].closure)
    /\ history[2].closure # history[1].closure
    /\ composeToasts = 1

(***************************************************************************)
(* composeImage's synchronous part (ImageComposer.tsx 73-121) and          *)
(* applyAdvancedSettings (130-154) as functions of their inputs            *)
(***************************************************************************)
\* a value stored into a Uint8ClampedArray: num / den (den > 0) is clamped
\* to 0..255 and rounded to the nearest integer, ties to even
RoundHalfEven(num, den) ==
    IF num <= 0 THEN 0
    ELSE IF num >= 255 * den THEN 255
    ELSE LET f == num \div den
             r == 2 * (num - f * den)
         IN IF r < den THEN f
            ELSE IF r > den THEN f + 1
            ELSE IF f % 2 = 0 THEN f ELSE f + 1

\* lines 137-141: data[i] + brightness * 2.55, clamped and stored
Brighten(v, brightness) ==
    IF brightness # 0 THEN RoundHalfEven(100 * v + 255 * brightness, 100) ELSE v

\* the contrast transform around 127
ContrastAround127(v, contrast) ==
    IF contrast # 0
    THEN RoundHalfEven(259 * (contrast + 255) * (v - 127)
                           + 127 * 255 * (259 - contrast),
                       255 * (259 - contrast))
    ELSE v

\* lines 144-149: factor * (data[i] - 128) + 128, clamped and stored, with
\* factor = (259 * (contrast + 255)) / (255 * (259 - contrast))
Contrast(v, contrast) ==
    IF contrast # 0
    THEN RoundHalfEven(259 * (contrast + 255) * (v - 128)
                           + 128 * 255 * (259 - contrast),
                       255 * (259 - contrast))
    ELSE v

\* contrast first, brightness second
GradeChannelContrastFirst(v, st) ==
    Brighten(Contrast(v, st.contrast), st.brightness)

\* one channel through the body of the loop
GradeChannel(v, st) == Contrast(Brighten(v, st.brightness), st.contrast)

\* a pass that also desaturates fully whenever saturation is set
GradePixelSaturating(px, st) ==
    IF st.brightness # 0 \/ st.contrast # 0 \/ st.saturation # 0
    THEN IF st.saturation # 0
         THEN LET grey == (px[1] + px[2] + px[3]) \div 3 IN
              <<GradeChannel(grey, st), GradeChannel(grey, st),
                GradeChannel(grey, st), px[4]>>
         ELSE <<GradeChannel(px[1], st), GradeChannel(px[2], st),
                GradeChannel(px[3], st), px[4]>>
    ELSE px

\* applyAdvancedSettings on one RGBA pixel of the image data
GradePixel(px, st) ==
    IF st.brightness # 0 \/ st.contrast # 0 \/ st.saturation # 0
    THEN <<GradeChannel(px[1], st), GradeChannel(px[2], st),
           GradeChannel(px[3], st), px[4]>>
    ELSE px

\* the colour of the one pixel of each image that the sample point shows
ImagePixel(img) ==
    CASE img = "cutout100" -> <<200, 100, 0, 255>>
      [] img = "cutout400x50" -> <<0, 129, 255, 255>>
      [] img = "bg200" -> <<10, 20, 30, 255>>
      [] img = "bg300x100" -> <<250, 128, 127, 255>>

\* The canvas pixel at a sample point that lies inside the foreground and
\* under no overlay stroke, after one more call of the display list.  A
\* pixel is [rgba, blend]: blend is <<>> for a pixel whose bytes are rgba,
\* and it names the blend for a pixel whose bytes depend on how the browser
\* composites (a blend mode or an alpha other than source-over at 100%).
Paint(px, o) ==
    CASE o.op \in {"background", "foreground"} ->
            IF /\ o.composite = "source-over" /\ o.alphaPercent = 100
               /\ ImagePixel(o.what.img)[4] = 255
            THEN [rgba |-> ImagePixel(o.what.img), blend |-> <<>>]
            ELSE [rgba |-> px.rgba,
                  blend |-> <<o.composite, o.alphaPercent, o.what.img>>]
      [] o.op = "grade" ->
            IF px.blend = <<>>
            THEN [px EXCEPT !.rgba = GradePixel(@, o.what)]
            ELSE [px EXCEPT !.blend = Append(@, "graded")]
      [] OTHER -> px

TransparentPixel == [rgba |-> <<0, 0, 0, 0>>, blend |-> <<>>]

RECURSIVE SamplePixel(_)
\* the sample pixel after all calls of a display list
SamplePixel(ops) ==
    IF ops = <<>> THEN TransparentPixel
    ELSE Paint(SamplePixel(SubSeq(ops, 1, Len(ops) - 1)), ops[Len(ops)])

\* ---- the inputs
DrawBlobs == Blobs \cup {"cutout400x50"}
\* 1, 1.1, 0.9 and 0.9 * 0.9: what the zoom buttons reach
DrawScales == {<<1, 1>>, <<11, 10>>, <<9, 10>>, <<81, 100>>}
\* offsets a drag leaves
DrawPositions == {[x |-> 0, y |-> 0], [x |-> 30, y |-> 10], [x |-> -7, y |-> 3]}
\* (brightness, contrast, saturation)
DrawGrades == {<<0, 0, 0>>, <<20, 0, 0>>, <<0, 0, 30>>, <<20, 50, 0>>}
DrawSettings ==
    {<<>>} \cup
    {<<[DefaultSettings EXCEPT !.snapToGrid = snap, !.edgeDetection = edge,
                               !.blendMode = blend, !.opacity = opacity,
                               !.brightness = g[1], !.contrast = g[2],
                               !.saturation = g[3]]>> :
        <<snap, edge, blend, opacity, g>> \in
            BOOLEAN \X BOOLEAN \X {"normal", "multiply"} \X {100, 50} \X DrawGrades}
DrawInputs ==
    {[foregroundBlob |-> <<fg>>, backgroundUrl |-> <<bg>>,
      advancedSettings |-> st, scale |-> sc, position |-> pos,
      showGrid |-> overlays, showEdges |-> overlays] :
        <<fg, bg, st, sc, pos, overlays>> \in
            DrawBlobs \X Urls \X DrawSettings \X DrawScales \X DrawPositions
                \X BOOLEAN}
\* what an earlier compose may have drawn with
PriorInputs ==
    {in \in DrawInputs :
        /\ in.foregroundBlob = <<"cutout100">>
        /\ in.scale = <<1, 1>> /\ in.position = [x |-> 0, y |-> 0]
        /\ in.showGrid
        /\ in.advancedSettings # <<>>
        /\ in.advancedSettings[1].snapToGrid /\ in.advancedSettings[1].edgeDetection
        /\ in.advancedSettings[1].blendMode = "multiply"
        /\ in.advancedSettings[1].opacity = 50
        /\ in.advancedSettings[1].brightness = 20
        /\ in.advancedSettings[1].contrast = 0}
DrawQueues ==
    {<<in>> : in \in DrawInputs}
        \cup {<<prior, in>> : <<prior, in>> \in PriorInputs \X DrawInputs}

\* the next composeImage call has its images and draws: lines 73-121
DrawStep ==
    /\ drawQueue # <<>>
    /\ drawCanvas' = ComposeOn(drawCanvas, Head(drawQueue))
    /\ drawDone' = Append(drawDone, Head(drawQueue))
    /\ drawQueue' = Tail(drawQueue)
    /\ DrawFrame

DrawIdle ==
    /\ drawQueue = <<>>
    /\ drawCanvas = BlankCanvas
    /\ drawDone = <<>>

DrawInit ==
    /\ drawQueue \in DrawQueues
    /\ drawCanvas = BlankCanvas
    /\ drawDone = <<>>

DrawNext == DrawStep

\* ---- applyAdvancedSettings on one pixel
\* pixels whose red channel takes every value 0..255, with other values in
\* green and blue, opaque or half transparent
GradePixels ==
    {<<v, 255 - v, (v + 128) % 256, IF v % 2 = 0 THEN 255 ELSE 128>> : v \in 0..255}
GradeBrightness == {-100, -20, 0, 10, 20, 100}
GradeContrast == {-100, -80, -60, -40, -20, 0, 20, 40, 60, 80, 100}
GradeSaturation == {0, 30}

ApplyAdvancedSettings ==
    /\ gradeOutput = <<>>
    /\ gradeOutput' = <<GradePixel(gradeInput.px, gradeInput)>>
    /\ UNCHANGED gradeInput
    /\ GradeFrame

GradeIdle ==
    /\ gradeInput = [px |-> <<0, 255, 128, 255>>, brightness |-> 0,
                     contrast |-> 0, saturation |-> 0]
    /\ gradeOutput = <<>>

GradeInit ==
    /\ gradeInput \in [px : GradePixels, brightness : GradeBrightness,
                       contrast : GradeContrast, saturation : GradeSaturation]
    /\ gradeOutput = <<>>

GradeNext == ApplyAdvancedSettings

(***************************************************************************)
(* Properties of composeImage's drawing                                    *)
(***************************************************************************)
\* the closure of the compose that drew last
LastDrawn == drawDone[Len(drawDone)]

\* the drawImage call of the foreground on the canvas
ForegroundCall ==
    drawCanvas.ops[CHOOSE k \in DOMAIN drawCanvas.ops :
                       drawCanvas.ops[k].op = "foreground"]

\* whether the last compose snapped
Snapping ==
    /\ LastDrawn.advancedSettings # <<>>
    /\ LastDrawn.advancedSettings[1].snapToGrid

\* (canvas - fgSize) / 2 + offset on one axis, as <<numerator, denominator>>
\* with a positive denominator, from the canvas and the drawn size
Centred(canvasSize, fgSize, offset) ==
    <<canvasSize * fgSize[2] - fgSize[1] + 2 * offset * fgSize[2], 2 * fgSize[2]>>

\* v is the multiple of 20 nearest to the number u (a tie goes up)
NearestGridLine(v, u) ==
    /\ v[2] = 1
    /\ v[1] % 20 = 0
    /\ -10 * u[2] < v[1] * u[2] - u[1]
    /\ v[1] * u[2] - u[1] <= 10 * u[2]

\* C13: with snapToGrid the foreground is drawn at a position that is a
\* multiple of 20 on each axis, namely the multiple nearest to the absolute
\* canvas position (canvas - fgSize)/2 + offset of that axis; without
\* snapToGrid it is drawn exactly at (canvas - fgSize)/2 + offset.
C13_SnapToGrid ==
    drawDone # <<>> =>
        LET r == ForegroundCall.what.rect
            ux == Centred(drawCanvas.width, r.w, LastDrawn.position.x)
            uy == Centred(drawCanvas.height, r.h, LastDrawn.position.y)
        IN
        /\ r.w[1] * LastDrawn.scale[2]
              = ImageWidth(LastDrawn.foregroundBlob[1]) * LastDrawn.scale[1] * r.w[2]
        /\ r.h[1] * LastDrawn.scale[2]
              = ImageHeight(LastDrawn.foregroundBlob[1]) * LastDrawn.scale[1] * r.h[2]
        /\ IF Snapping
           THEN NearestGridLine(r.x, ux) /\ NearestGridLine(r.y, uy)
           ELSE /\ r.x[1] * ux[2] = ux[1] * r.x[2]
                /\ r.y[1] * uy[2] = uy[1] * r.y[2]

\* C13 witness: a snapped draw of a scaled, dragged foreground that lies
\* left of the canvas origin, where the centred position is off the grid on
\* both axes.
C13_Witness ==
    /\ drawDone # <<>>
    /\ Snapping
    /\ LastDrawn.scale = <<11, 10>>
    /\ LastDrawn.position = [x |-> -7, y |-> 3]
    /\ ForegroundCall.what.rect.x[1] < 0
    /\ ForegroundCall.what.rect.x[1] % 20 = 0
    /\ LET ux == Centred(drawCanvas.width, ForegroundCall.what.rect.w,
                         LastDrawn.position.x)
       IN ux[1] % (20 * ux[2]) # 0

\* whether the last compose drew the foreground with blendMode 'normal' and
\* opacity 100 (or without settings)
PlainForeground ==
    \/ LastDrawn.advancedSettings = <<>>
    \/ /\ LastDrawn.advancedSettings[1].blendMode = "normal"
       /\ LastDrawn.advancedSettings[1].opacity = 100

\* C14: the grading pass comes after the background draw and before the
\* foreground draw, so a fully opaque foreground pixel drawn with blendMode
\* 'normal' and opacity 100 is on the canvas with its own RGB, whatever the
\* brightness and contrast (the pixel is one no overlay stroke crosses).
C14_GradingBeforeForeground ==
    drawDone # <<>> =>
        /\ \A k \in DOMAIN drawCanvas.ops :
              drawCanvas.ops[k].op = "grade"
              => /\ \E j \in 1..(k - 1) : drawCanvas.ops[j].op = "background"
                 /\ \E j \in (k + 1)..Len(drawCanvas.ops) :
                       drawCanvas.ops[j].op = "foreground"
                 /\ \A j \in 1..(k - 1) : drawCanvas.ops[j].op # "foreground"
        /\ PlainForeground
           => SamplePixel(drawCanvas.ops)
                = [rgba |-> ImagePixel(LastDrawn.foregroundBlob[1]), blend |-> <<>>]

\* C14 witness: a compose with brightness 20 and contrast 50 whose plain
\* foreground pixel differs from what the grading makes of it.
C14_Witness ==
    /\ drawDone # <<>>
    /\ PlainForeground
    /\ LastDrawn.advancedSettings # <<>>
    /\ LastDrawn.advancedSettings[1].brightness = 20
    /\ LastDrawn.advancedSettings[1].contrast = 50
    /\ \E k \in DOMAIN drawCanvas.ops : drawCanvas.ops[k].op = "grade"
    /\ GradePixel(ImagePixel(LastDrawn.foregroundBlob[1]),
                  LastDrawn.advancedSettings[1])
          # ImagePixel(LastDrawn.foregroundBlob[1])

\* C15: the grid and the bounding box are always drawn with 'source-over'
\* and globalAlpha 1, the context is in that state whenever no compose is
\* drawing, the background of every compose (also of one that follows a
\* compose with a blend mode and an opacity) is drawn with 'source-over' and
\* globalAlpha 1, and the foreground is drawn with its own compose's blend
\* mode and opacity.
C15_BlendStateIsReset ==
    /\ drawCanvas.ctx = [composite |-> "source-over", alphaPercent |-> 100]
    /\ \A k \in DOMAIN drawCanvas.ops :
          drawCanvas.ops[k].op \in {"grid", "edgeBox", "background"}
          => /\ drawCanvas.ops[k].composite = "source-over"
             /\ drawCanvas.ops[k].alphaPercent = 100
    /\ drawDone # <<>> =>
          LET st == LastDrawn.advancedSettings IN
          /\ ForegroundCall.composite =
                IF st # <<>> /\ st[1].blendMode # "normal"
                THEN st[1].blendMode ELSE "source-over"
          /\ ForegroundCall.alphaPercent = IF st # <<>> THEN st[1].opacity ELSE 100

\* C15 witness: after a compose with 'multiply' at opacity 50, a compose
\* without settings has drawn its background, its foreground and the grid.
C15_Witness ==
    /\ Len(drawDone) = 2
    /\ drawDone[1].advancedSettings # <<>>
    /\ drawDone[1].advancedSettings[1].blendMode = "multiply"
    /\ drawDone[1].advancedSettings[1].opacity = 50
    /\ drawDone[2].advancedSettings = <<>>
    /\ \E k \in DOMAIN drawCanvas.ops : drawCanvas.ops[k].op = "grid"

\* C16: after a compose the canvas has exactly the width and the height of
\* that compose's background image, whatever the foreground's size, scale
\* and offset and whatever size the canvas had before.
C16_CanvasHasBackgroundSize ==
    drawDone # <<>> =>
        /\ drawCanvas.width = ImageWidth(LastDrawn.backgroundUrl[1])
        /\ drawCanvas.height = ImageHeight(LastDrawn.backgroundUrl[1])

\* C16 witness: the foreground is wider than the background and drawn past
\* both vertical edges of the canvas, on a canvas that was larger before.
C16_Witness ==
    /\ Len(drawDone) = 2
    /\ ImageWidth(drawDone[1].backgroundUrl[1]) > ImageWidth(drawDone[2].backgroundUrl[1])
    /\ LET r == ForegroundCall.what.rect IN
       /\ r.x[1] < 0
       /\ r.x[1] * r.w[2] + r.w[1] * r.x[2] > drawCanvas.width * r.x[2] * r.w[2]

\* C17: what a compose leaves on the canvas (size, content, context state)
\* is a function of its inputs alone: it is what the same compose draws on
\* a fresh canvas, whatever an earlier compose left there.
C17_ComposeIsDeterministic ==
    drawDone # <<>> => drawCanvas = ComposeOn(BlankCanvas, LastDrawn)

\* C17 witness: the compose drew over what an earlier compose with the
\* same background and other settings had left.
C17_Witness ==
    /\ Len(drawDone) = 2
    /\ drawDone[1] # drawDone[2]
    /\ drawDone[1].backgroundUrl = drawDone[2].backgroundUrl
    /\ ComposeOn(BlankCanvas, drawDone[1]) # drawCanvas
    /\ Len(drawCanvas.ops) < Len(ComposeOn(BlankCanvas, drawDone[1]).ops)

(***************************************************************************)
(* resizeImageIfNeeded (BackgroundRemover.tsx 156-181)                     *)
(***************************************************************************)
MAX_IMAGE_DIMENSION == 1024

\* image.naturalWidth and image.naturalHeight
NaturalSizes == {1, 2, 3, 512, 683, 1023, 1024, 1025, 1536, 2048, 3000, 4096}

ResizeNeededInclusive(width, height) ==
    width >= MAX_IMAGE_DIMENSION \/ height >= MAX_IMAGE_DIMENSION

\* line 162
ResizeNeeded(width, height) ==
    width > MAX_IMAGE_DIMENSION \/ height > MAX_IMAGE_DIMENSION

ScaledSideFloor(side, other) == (side * MAX_IMAGE_DIMENSION) \div other

\* lines 164 and 167: Math.round((side * MAX_IMAGE_DIMENSION) / other)
ScaledSide(side, other) == MathRound(side * MAX_IMAGE_DIMENSION, other)

\* the canvas size, the size handed to drawImage (<<>> when the image is
\* drawn with drawImage(image, 0, 0)) and the return value
ResizeResult(image) ==
    IF ResizeNeeded(image.naturalWidth, image.naturalHeight)
    THEN LET width == IF image.naturalWidth > image.naturalHeight
                      THEN MAX_IMAGE_DIMENSION
                      ELSE ScaledSide(image.naturalWidth, image.naturalHeight)
             height == IF image.naturalWidth > image.naturalHeight
                       THEN ScaledSide(image.naturalHeight, image.naturalWidth)
                       ELSE MAX_IMAGE_DIMENSION
         IN [width |-> width, height |-> height,
             drawSize |-> <<width, height>>, wasResized |-> TRUE]
    ELSE [width |-> image.naturalWidth, height |-> image.naturalHeight,
          drawSize |-> <<>>, wasResized |-> FALSE]

ResizeImageIfNeeded ==
    /\ resizeOutput = <<>>
    /\ resizeOutput' = <<ResizeResult(resizeInput)>>
    /\ UNCHANGED resizeInput
    /\ ResizeFrame

ResizeIdle ==
    /\ resizeInput = [naturalWidth |-> 1, naturalHeight |-> 1]
    /\ resizeOutput = <<>>

ResizeInit ==
    /\ resizeInput \in [naturalWidth : NaturalSizes, naturalHeight : NaturalSizes]
    /\ resizeOutput = <<>>

ResizeNext == ResizeImageIfNeeded

(***************************************************************************)
(* Properties of resizeImageIfNeeded and of applyAdvancedSettings          *)
(***************************************************************************)
\* C18: when neither side of the image exceeds 1024 the canvas gets the
\* image's own width and height, the image is drawn without a size (so
\* unscaled) and the function returns false; and no side of any output is
\* larger than the image's (nothing is ever scaled up).
C18_NoResizeWithinLimit ==
    resizeOutput # <<>> =>
        LET w == resizeInput.naturalWidth
            h == resizeInput.naturalHeight
            out == resizeOutput[1]
        IN
        /\ (w <= 1024 /\ h <= 1024)
           => /\ out.width = w /\ out.height = h
              /\ out.drawSize = <<>>
              /\ out.wasResized = FALSE
        /\ out.width <= w /\ out.height <= h

\* C18 witness: a 1024 x 1024 image, the largest that is left alone.
C18_Witness ==
    /\ resizeInput = [naturalWidth |-> 1024, naturalHeight |-> 1024]
    /\ resizeOutput # <<>>
    /\ resizeOutput[1].width = 1024

\* C19: when a side exceeds 1024 the longer side of the output (the height
\* for equal sides) is exactly 1024 and the shorter side s' is
\* round(s * 1024 / l) for the image's shorter side s and longer side l:
\* s' - s * 1024 / l lies in (-1/2, 1/2]; the image is drawn at that size
\* and the function returns true.
C19_LongerSideBecomesLimit ==
    resizeOutput # <<>> =>
        LET w == resizeInput.naturalWidth
            h == resizeInput.naturalHeight
            out == resizeOutput[1]
            l == IF w > h THEN w ELSE h
            s == IF w > h THEN h ELSE w
            outL == IF w > h THEN out.width ELSE out.height
            outS == IF w > h THEN out.height ELSE out.width
        IN
        l > 1024
        => /\ outL = 1024
           /\ -l < 2 * (outS * l - s * 1024)
           /\ 2 * (outS * l - s * 1024) <= l
           /\ out.drawSize = <<out.width, out.height>>
           /\ out.wasResized = TRUE
           /\ (w = h => out.width = 1024 /\ out.height = 1024)

\* C19 witness: 2048 x 1025, whose shorter side scales to 512.5 and is
\* rounded to 513.
C19_Witness ==
    /\ resizeInput = [naturalWidth |-> 2048, naturalHeight |-> 1025]
    /\ resizeOutput # <<>>
    /\ resizeOutput[1].width = 1024
    /\ resizeOutput[1].height = 513

\* C20: with brightness 0 and contrast 0 the pass leaves a pixel's R, G, B
\* and alpha as they were, whatever the saturation.
C20_ZeroGradeIsIdentity ==
    (/\ gradeOutput # <<>>
     /\ gradeInput.brightness = 0
     /\ gradeInput.contrast = 0)
    => gradeOutput[1] = gradeInput.px

\* C20 witness: the pass ran over a half-transparent pixel because the
\* saturation is set, with brightness 0 and contrast 0.
C20_Witness ==
    /\ gradeOutput # <<>>
    /\ gradeInput.brightness = 0
    /\ gradeInput.contrast = 0
    /\ gradeInput.saturation = 30
    /\ gradeInput.px = <<1, 254, 129, 128>>

\* C21: with brightness 0, a channel holding 128 holds 128 after the pass
\* for every contrast, and with contrast 0 every channel value is left as it
\* was.
C21_ContrastFixedPoint ==
    (gradeOutput # <<>> /\ gradeInput.brightness = 0)
    => \A ch \in 1..3 :
          /\ gradeInput.px[ch] = 128 => gradeOutput[1][ch] = 128
          /\ gradeInput.contrast = 0 => gradeOutput[1][ch] = gradeInput.px[ch]

\* C21 witness: contrast 100 moved red and green of a pixel and left its
\* blue channel at 128.
C21_Witness ==
    /\ gradeOutput # <<>>
    /\ gradeInput.brightness = 0
    /\ gradeInput.contrast = 100
    /\ gradeInput.px = <<0, 255, 128, 255>>
    /\ gradeOutput[1][3] = 128

\* x = num / den (den > 0) clamped to [0, 255] is within half a unit of
\* the integer v: v is x after the clamp, stored in the 8-bit buffer
StoredClamped(v, num, den) ==
    LET cn == IF num < 0 THEN 0 ELSE IF num > 255 * den THEN 255 * den ELSE num
    IN /\ v \in 0..255
       /\ 2 * (v * den - cn) <= den
       /\ 2 * (cn - v * den) <= den

\* C24: for each of R, G, B there is an 8-bit value b1 that is the channel
\* plus brightness * 2.55, clamped and stored (the channel itself for
\* brightness 0), and the result is factor * (b1 - 128) + 128, clamped and
\* stored, with factor = 259 * (contrast + 255) / (255 * (259 - contrast))
\* (b1 itself for contrast 0); every result lies in 0..255; alpha is as it
\* was.
C24_BrightnessThenContrast ==
    gradeOutput # <<>> =>
        LET b == gradeInput.brightness
            c == gradeInput.contrast
        IN
        /\ gradeOutput[1][4] = gradeInput.px[4]
        /\ \A ch \in 1..3 :
              /\ gradeOutput[1][ch] \in 0..255
              /\ \E b1 \in 0..255 :
                    /\ IF b = 0 THEN b1 = gradeInput.px[ch]
                       ELSE StoredClamped(b1, 100 * gradeInput.px[ch] + 255 * b, 100)
                    /\ IF c = 0 THEN gradeOutput[1][ch] = b1
                       ELSE StoredClamped(gradeOutput[1][ch],
                                          259 * (c + 255) * (b1 - 128)
                                              + 128 * 255 * (259 - c),
                                          255 * (259 - c))

\* C24 witness: brightness 100 saturates a channel at 255 before contrast
\* -60 pulls it back towards 128, on a half-transparent pixel.
C24_Witness ==
    /\ gradeOutput # <<>>
    /\ gradeInput.brightness = 100
    /\ gradeInput.contrast = -60
    /\ gradeInput.px = <<1, 254, 129, 128>>
    /\ gradeOutput[1][2] < 255
    /\ gradeOutput[1][2] > 128
    /\ gradeOutput[1][4] = 128

\* C28 (as claimed): for every image at least 1 x 1 the canvas
\* resizeImageIfNeeded sizes is at least 1 x 1.
C28_NeverZeroSized ==
    resizeOutput # <<>>
    => resizeOutput[1].width >= 1 /\ resizeOutput[1].height >= 1

(***************************************************************************)
(* ExportStudio.tsx: the export settings, resizeCanvas and handleExport    *)
(***************************************************************************)
EXPORT_FORMATS == {"png", "jpg", "webp", "svg", "pdf"}

PRESET_SIZES ==
    <<[name |-> "Original Size", width |-> 0, height |-> 0],
      [name |-> "HD", width |-> 1920, height |-> 1080],
      [name |-> "Instagram Post", width |-> 1080, height |-> 1080],
      [name |-> "Instagram Story", width |-> 1080, height |-> 1920],
      [name |-> "Facebook Cover", width |-> 1200, height |-> 630],
      [name |-> "Twitter Header", width |-> 1500, height |-> 500],
      [name |-> "Tablet", width |-> 1024, height |-> 768]>>

\* what the user types into the two number inputs
CustomWidths == {1920, 1080}
CustomHeights == {1080, 1920}

\* the composite behind canvasRef: an HD one and a square one
HdComposite ==
    [width |-> 1920, height |-> 1080, ops |-> <<[op |-> "background", img |-> "hd"]>>]
SquareComposite ==
    [width |-> 200, height |-> 200, ops |-> <<[op |-> "background", img |-> "bg200"]>>]
ExportSources == {<<>>, <<HdComposite>>, <<SquareComposite>>}

\* Math.max instead of Math.min: the source covers the target box
FitScaleCover(cw, ch, tw, th) ==
    IF tw * ch >= th * cw THEN <<tw, cw>> ELSE <<th, ch>>

\* scale = Math.min(targetWidth / canvas.width, targetHeight / canvas.height),
\* as the fraction <<numerator, denominator>>
FitScale(cw, ch, tw, th) ==
    IF tw * ch <= th * cw THEN <<tw, cw>> ELSE <<th, ch>>

\* resizeCanvas(canvas, targetWidth, targetHeight) with the format it closes
\* over; lengths are rationals in lowest terms
ResizeCanvas(cv, tw, th, fmt) ==
    LET sc == FitScale(cv.width, cv.height, tw, th)
        scaledWidth == Rat(cv.width * sc[1], sc[2])
        scaledHeight == Rat(cv.height * sc[1], sc[2])
        offsetX == Rat(tw * scaledWidth[2] - scaledWidth[1], 2 * scaledWidth[2])
        offsetY == Rat(th * scaledHeight[2] - scaledHeight[1], 2 * scaledHeight[2])
    IN
    [width |-> tw, height |-> th,
     ops |-> (IF fmt # "png"
              THEN <<[op |-> "fillRect", style |-> "#ffffff",
                      x |-> <<0, 1>>, y |-> <<0, 1>>,
                      w |-> <<tw, 1>>, h |-> <<th, 1>>]>>
              ELSE <<>>)
             \o <<[op |-> "drawImage", source |-> cv,
                   x |-> offsetX, y |-> offsetY,
                   w |-> scaledWidth, h |-> scaledHeight]>>]

\* addWatermarkToCanvas with the default watermarkPosition 'bottom-right'
AddWatermarkToCanvas(cv, wm) ==
    IF ~wm THEN cv
    ELSE [width |-> cv.width, height |-> cv.height,
          ops |-> <<[op |-> "drawImage", source |-> cv,
                     x |-> <<0, 1>>, y |-> <<0, 1>>,
                     w |-> <<cv.width, 1>>, h |-> <<cv.height, 1>>],
                    [op |-> "watermark", position |-> "bottom-right"]>>]

MimeType(fmt) == IF fmt = "jpg" THEN "image/jpeg" ELSE "image/" \o fmt

\* the types canvas.toBlob may encode to when asked for a type: png and jpeg
\* always, webp where the browser has the encoder, png for everything else
EncodedTypes(mime) ==
    CASE mime \in {"image/png", "image/jpeg"} -> {mime}
      [] mime = "image/webp" -> {"image/webp", "image/png"}
      [] OTHER -> {"image/png"}

SetFormat(f) ==
    /\ format' = f
    /\ UNCHANGED <<exportSource, selectedSize, customWidth, customHeight,
                   useCustomSize, addWatermark, exported, exportToast>>
    /\ ExportFrame

\* a click on a preset tile
SelectPreset(k) ==
    /\ selectedSize' = PRESET_SIZES[k]
    /\ useCustomSize' = FALSE
    /\ UNCHANGED <<exportSource, format, customWidth, customHeight,
                   addWatermark, exported, exportToast>>
    /\ ExportFrame

SetUseCustomSize(b) ==
    /\ useCustomSize' = b
    /\ UNCHANGED <<exportSource, format, selectedSize, customWidth, customHeight,
                   addWatermark, exported, exportToast>>
    /\ ExportFrame

SetCustomWidth(w) ==
    /\ customWidth' = w
    /\ UNCHANGED <<exportSource, format, selectedSize, customHeight,
                   useCustomSize, addWatermark, exported, exportToast>>
    /\ ExportFrame

SetCustomHeight(h) ==
    /\ customHeight' = h
    /\ UNCHANGED <<exportSource, format, selectedSize, customWidth,
                   useCustomSize, addWatermark, exported, exportToast>>
    /\ ExportFrame

SetAddWatermark(b) ==
    /\ addWatermark' = b
    /\ UNCHANGED <<exportSource, format, selectedSize, customWidth, customHeight,
                   useCustomSize, exported, exportToast>>
    /\ ExportFrame

\* handleExport; toBlob's callback runs with the values the call closed over
HandleExport ==
    /\ IF exportSource = <<>>
       THEN /\ exportToast' = "No image to export"
            /\ UNCHANGED exported
       ELSE LET resized ==
                    IF useCustomSize
                    THEN ResizeCanvas(exportSource[1], customWidth, customHeight, format)
                    ELSE IF selectedSize.width > 0 /\ selectedSize.height > 0
                    THEN ResizeCanvas(exportSource[1], selectedSize.width,
                                      selectedSize.height, format)
                    ELSE exportSource[1]
                exportCanvas == AddWatermarkToCanvas(resized, addWatermark)
                sizePostfix ==
                    IF useCustomSize THEN <<customWidth, customHeight>>
                    ELSE IF selectedSize.width > 0
                    THEN <<selectedSize.width, selectedSize.height>>
                    ELSE <<>>
            IN
            /\ \E type \in EncodedTypes(MimeType(format)) :
                   exported' = <<[canvas |-> exportCanvas,
                                  mimeType |-> MimeType(format),
                                  type |-> type,
                                  sizePostfix |-> sizePostfix,
                                  extension |-> format]>>
            /\ exportToast' = "Image exported"
    /\ UNCHANGED <<exportSource, format, selectedSize, customWidth, customHeight,
                   useCustomSize, addWatermark>>
    /\ ExportFrame

ExportIdle ==
    /\ format = "png"
    /\ selectedSize = PRESET_SIZES[1]
    /\ customWidth = 1920
    /\ customHeight = 1080
    /\ useCustomSize = FALSE
    /\ addWatermark = FALSE
    /\ exported = <<>>
    /\ exportToast = None
    /\ exportSource = <<>>

ExportInit ==
    /\ format = "png"
    /\ selectedSize = PRESET_SIZES[1]
    /\ customWidth = 1920
    /\ customHeight = 1080
    /\ useCustomSize = FALSE
    /\ addWatermark = FALSE
    /\ exported = <<>>
    /\ exportToast = None
    /\ exportSource \in ExportSources

ExportNext ==
    \/ \E f \in EXPORT_FORMATS : SetFormat(f)
    \/ \E k \in DOMAIN PRESET_SIZES : SelectPreset(k)
    \/ \E b \in BOOLEAN : SetUseCustomSize(b)
    \/ \E w \in CustomWidths : SetCustomWidth(w)
    \/ \E h \in CustomHeights : SetCustomHeight(h)
    \/ \E b \in BOOLEAN : SetAddWatermark(b)
    \/ HandleExport

(***************************************************************************)
(* Properties of the export                                                *)
(***************************************************************************)
\* the canvas resizeCanvas returned inside an exported file: the file's own
\* canvas, or the one the watermark pass copied
ResizedOf(file) ==
    IF file.canvas.ops[Len(file.canvas.ops)].op = "watermark"
    THEN file.canvas.ops[1].source
    ELSE file.canvas

\* the HD composite was exported into the 1080 x 1080 box
HdIntoSquare ==
    /\ exported # <<>>
    /\ exportSource = <<HdComposite>>
    /\ exported[1].sizePostfix = <<1080, 1080>>

\* the drawImage of the source inside a resized canvas
SourceDraw(cv) == cv.ops[Len(cv.ops)]

\* C10 (as claimed): a 1920x1080 composite exported at 1080x1080 gives a
\* 1080x1080 output with the source centred, margins of 270px at the top and
\* at the bottom, and no horizontal margin.
C10_Margins270 ==
    HdIntoSquare =>
        LET cv == ResizedOf(exported[1])
            d == SourceDraw(cv)
        IN
        /\ cv.width = 1080 /\ cv.height = 1080
        /\ d.x = <<0, 1>> /\ d.w = <<1080, 1>>
        /\ d.y = <<270, 1>>
        /\ d.h = <<1080 - 2 * 270, 1>>

\* C10 (amended): a 1920x1080 composite exported at 1080x1080 gives a
\* 1080x1080 output with the source drawn 1080 wide and 607.5 high, centred:
\* margins of 236.25px (945/4) at the top and at the bottom, and no
\* horizontal margin.
C10_Margins236 ==
    HdIntoSquare =>
        LET cv == ResizedOf(exported[1])
            d == SourceDraw(cv)
        IN
        /\ cv.width = 1080 /\ cv.height = 1080
        /\ d.op = "drawImage" /\ d.source = HdComposite
        /\ d.x = <<0, 1>> /\ d.w = <<1080, 1>>
        /\ d.y = <<945, 4>>
        /\ d.h = <<1215, 2>>

\* C10 witness: the HD composite exported through the Instagram Post preset
C10_Witness ==
    /\ HdIntoSquare
    /\ ~useCustomSize
    /\ selectedSize = PRESET_SIZES[3]
    /\ exported[1].canvas.width = 1080

\* C11 (as claimed): when the export is resized into a target box, the box
\* is left transparent (nothing is filled) for png and webp and is filled
\* with opaque white for every other format.
C11_TransparentForPngAndWebp ==
    (exported # <<>> /\ exported[1].sizePostfix # <<>>)
    => LET cv == ResizedOf(exported[1])
           filled == \E k \in DOMAIN cv.ops :
                        /\ cv.ops[k].op = "fillRect"
                        /\ cv.ops[k].style = "#ffffff"
                        /\ cv.ops[k].w = <<cv.width, 1>>
                        /\ cv.ops[k].h = <<cv.height, 1>>
       IN filled <=> exported[1].extension \notin {"png", "webp"}

\* C12 (as claimed): an export requested with format svg or pdf emits no
\* file and is reported as a failure; only png, jpg and webp exports emit
\* a file.
C12_OnlyRasterFormatsEmit ==
    exported # <<>>
    => /\ exported[1].extension \in {"png", "jpg", "webp"}
       /\ exportToast = "Image exported"

(***************************************************************************)
(* BackgroundRemover.tsx 14-65 and the removeBackground it awaits          *)
(*   (lib/backgroundRemoval.ts 8-112)                                      *)
(***************************************************************************)
\* the files a drop or the file input can hand over, with their types
RemoverFiles ==
    {[name |-> "a.png", type |-> "image/png"],
     [name |-> "b.png", type |-> "image/png"],
     [name |-> "notes.txt", type |-> "text/plain"]}

\* what img.onerror rejects loadImage with: the error event
LoadErrorEvent == "error event"

\* the two toasts of processImage and the one of handleFileSelect
RemovedToast == "Background removed successfully!"
FailedToast == "Failed to remove background. Please try again."
NotAnImageToast == "Please select an image file"

\* how an awaited removeBackground settled
Resolved(blob) == [kind |-> "resolved", blob |-> blob]

\* a failure answered with an image that is the cutout of no file
RethrowAsDefaultImage(msg) ==
    [kind |-> "resolved", blob |-> <<"default", "">>]

\* lib 108-111: catch (error) { console.error(...); throw error; }
Rethrow(msg) == [kind |-> "rejected", error |-> msg]

\* lines 20-29
RemoverHandleFileSelect(file) ==
    /\ IF ~IsImage(file.type)
       THEN /\ removerToast' = NotAnImageToast
            /\ UNCHANGED selectedFile
       ELSE /\ selectedFile' = <<file>>
            /\ UNCHANGED removerToast
    /\ UNCHANGED <<removerIsProcessing, progress, removals, processed>>
    /\ RemoverFrame

\* lines 46-53: processImage up to its first await
ProcessImage ==
    /\ selectedFile # <<>>
    /\ Len(removals) < MaxRuns
    /\ removerIsProcessing' = TRUE
    /\ progress' = 0
    /\ removals' = Append(removals, [file |-> selectedFile[1], pc |-> "loadImage",
                                     failure |-> None])
    /\ UNCHANGED <<selectedFile, processed, removerToast>>
    /\ RemoverFrame

\* a call goes on to its next await after the progress reports p
Continue(n, pc, p) ==
    /\ removals' = [removals EXCEPT ![n].pc = pc]
    /\ progress' = p
    /\ UNCHANGED <<selectedFile, removerIsProcessing, processed, removerToast>>
    /\ RemoverFrame

\* lines 54-64: what follows the awaits of processImage, by how the awaited
\* promise settled; `failure` is what the collaborator failed with, if it did
Settled(n, outcome, failure) ==
    /\ IF outcome.kind = "resolved"
       THEN /\ processed' = Append(processed, [blob |-> outcome.blob,
                                               file |-> removals[n].file])
            /\ removerToast' = RemovedToast
            /\ removals' = [removals EXCEPT ![n].pc = "resolved",
                                            ![n].failure = failure]
       ELSE /\ removerToast' = FailedToast
            /\ removals' = [removals EXCEPT ![n].pc = "rejected",
                                            ![n].failure = failure]
            /\ UNCHANGED processed
    /\ removerIsProcessing' = FALSE
    /\ progress' = 0
    /\ UNCHANGED selectedFile
    /\ RemoverFrame

\* removeBackground failed with msg inside its try block
Failed(n, msg) == Settled(n, Rethrow(msg), msg)

\* await loadImage(selectedFile); then removeBackground up to its first
\* await: onProgress(10), onProgress(30), pipeline(...)
RemoverLoadImageSettles(n) ==
    /\ n \in DOMAIN removals /\ removals[n].pc = "loadImage"
    /\ \E ok \in BOOLEAN :
        IF ok THEN Continue(n, "pipeline", 30)
        ELSE Settled(n, [kind |-> "rejected", error |-> LoadErrorEvent],
                     LoadErrorEvent)

\* await pipeline(...); then onProgress(50), the 2d context, the resize,
\* onProgress(70) and the segmenter call
RemoverPipelineSettles(n) ==
    /\ n \in DOMAIN removals /\ removals[n].pc = "pipeline"
    /\ \E res \in {"ok", "noContext"} \cup PipelineErrors :
        CASE res = "ok" -> Continue(n, "segmenter", 70)
          [] res = "noContext" -> Failed(n, "Could not get canvas context")
          [] OTHER -> Failed(n, res)

\* await segmenter(imageData); then the checks of the result (36-38), the
\* mask (64-66), the output context (74), the alpha loop, onProgress(100)
\* and toBlob
RemoverSegmenterSettles(n) ==
    /\ n \in DOMAIN removals /\ removals[n].pc = "segmenter"
    /\ \E res \in {"ok", "invalid", "noMask", "noContext"} \cup SegmenterErrors :
        CASE res = "ok" -> Continue(n, "toBlob", 100)
          [] res = "invalid" -> Failed(n, "Invalid segmentation result")
          [] res = "noMask" ->
                Failed(n, "No suitable mask found for background removal")
          [] res = "noContext" ->
                Failed(n, "Could not get output canvas context")
          [] OTHER -> Failed(n, res)

\* the toBlob callback (94-107): resolve(blob) or
\* reject(new Error('Failed to create blob'))
RemoverToBlobSettles(n) ==
    /\ n \in DOMAIN removals /\ removals[n].pc = "toBlob"
    /\ \E ok \in BOOLEAN :
        IF ok THEN Settled(n, Resolved(CutoutOf(removals[n].file)), None)
        ELSE Failed(n, "Failed to create blob")

RemoverInit ==
    /\ selectedFile = <<>>
    /\ removerIsProcessing = FALSE
    /\ progress = 0
    /\ removals = <<>>
    /\ processed = <<>>
    /\ removerToast = None

RemoverNext ==
    \/ \E file \in RemoverFiles : RemoverHandleFileSelect(file)
    \/ ProcessImage
    \/ \E n \in 1..MaxRuns : RemoverLoadImageSettles(n)
    \/ \E n \in 1..MaxRuns : RemoverPipelineSettles(n)
    \/ \E n \in 1..MaxRuns : RemoverSegmenterSettles(n)
    \/ \E n \in 1..MaxRuns : RemoverToBlobSettles(n)

\* C23: a processImage call that met a failure of loadImage or of
\* removeBackground (the model fails to load, the result is empty or no
\* array, no mask is usable, a canvas context is missing, no blob is made)
\* ends rejected and never resolved; the step that ends it calls
\* onImageProcessed not at all, shows the failure toast and leaves
\* isProcessing false and progress 0; and what onImageProcessed was ever
\* called with is the cutout of the call's own file, once per call that
\* met no failure.
C23_FailureIsSurfaced ==
    /\ [](\A n \in DOMAIN removals :
             /\ removals[n].failure # None => removals[n].pc = "rejected"
             /\ removals[n].pc = "rejected" => removals[n].failure # None)
    /\ [](/\ Len(processed) =
               Cardinality({n \in DOMAIN removals : removals[n].pc = "resolved"})
          /\ \A k \in DOMAIN processed :
                /\ processed[k].blob = CutoutOf(processed[k].file)
                /\ \E n \in DOMAIN removals :
                      /\ removals[n].pc = "resolved"
                      /\ removals[n].file = processed[k].file)
    /\ [][\A n \in DOMAIN removals :
             (removals[n].pc # "rejected" /\ removals'[n].pc = "rejected")
             => /\ processed' = processed
                /\ removerToast' = FailedToast
                /\ removerIsProcessing' = FALSE
                /\ progress' = 0]_vars

\* C23 witness: one call delivered the cutout of its file and another one,
\* for the other file, found no usable mask after its progress had reached
\* 70: it is rejected, only the first call's cutout was handed over, and
\* the component is idle at progress 0.
C23_Witness ==
    /\ Len(removals) = 2
    /\ removals[1].pc = "resolved"
    /\ removals[2].pc = "rejected"
    /\ removals[2].failure = "No suitable mask found for background removal"
    /\ removals[2].file # removals[1].file
    /\ processed = <<[blob |-> CutoutOf(removals[1].file),
                      file |-> removals[1].file]>>
    /\ removerToast = FailedToast
    /\ ~removerIsProcessing
    /\ progress = 0

(***************************************************************************)
(* Specifications                                                          *)
(***************************************************************************)
\* the parts a specification leaves idle start in one fixed state
MaskIdle ==
    /\ raster = [width |-> 1, height |-> 1, data |-> <<10, 20, 30, 255>>]
    /\ mask = <<<<1, 1>>>>
    /\ outputData = raster.data
    /\ maskOutcome = "pending"

PureIdle == DrawIdle /\ GradeIdle /\ ResizeIdle

InitBatch ==
    BatchInit /\ MaskIdle /\ ComposeInit /\ ExportIdle /\ RemoverInit /\ PureIdle

\* the batch queue alone
SpecBatch ==
    /\ InitBatch
    /\ [][BatchNext]_vars

InitMask ==
    MaskInit /\ BatchInit /\ ComposeInit /\ ExportIdle /\ RemoverInit /\ PureIdle

\* the alpha loop applied to every raster and mask within the bounds
SpecMask ==
    /\ InitMask
    /\ [][MaskNext]_vars

InitCompose ==
    ComposeInit /\ BatchInit /\ MaskIdle /\ ExportIdle /\ RemoverInit /\ PureIdle

\* the page with its controls and the preview canvas
SpecCompose ==
    /\ InitCompose
    /\ [][ComposeNext]_vars

InitExport ==
    ExportInit /\ BatchInit /\ MaskIdle /\ ComposeInit /\ RemoverInit /\ PureIdle

\* the export dialog over a composite that stays as it is
SpecExport ==
    /\ InitExport
    /\ [][ExportNext]_vars

InitGesture ==
    GestureInit /\ BatchInit /\ MaskIdle /\ ExportIdle /\ RemoverInit /\ PureIdle

\* the gestures on a shown composite
SpecGesture ==
    InitGesture /\ [][GestureNext]_vars

InitRemover ==
    RemoverInit /\ BatchInit /\ MaskIdle /\ ComposeInit /\ ExportIdle /\ PureIdle

\* BackgroundRemover and the removeBackground it awaits
SpecRemover ==
    InitRemover /\ [][RemoverNext]_vars

OthersIdle == BatchInit /\ MaskIdle /\ ComposeInit /\ ExportIdle /\ RemoverInit

InitDraw == DrawInit /\ GradeIdle /\ ResizeIdle /\ OthersIdle

\* composeImage's drawing applied to every input, on a fresh canvas and on
\* the canvas an earlier compose left
SpecDraw ==
    /\ InitDraw
    /\ [][DrawNext]_vars

InitGrade == GradeInit /\ DrawIdle /\ ResizeIdle /\ OthersIdle

\* applyAdvancedSettings applied to every pixel and setting within the sets
SpecGrade ==
    /\ InitGrade
    /\ [][GradeNext]_vars

InitResize == ResizeInit /\ DrawIdle /\ GradeIdle /\ OthersIdle

\* resizeImageIfNeeded applied to every image size within the set
SpecResize ==
    /\ InitResize
    /\ [][ResizeNext]_vars

====
